---- MODULE Spec2Model ----
(***************************************************************************)
(* Model of the pointer-event-to-drawing-tool pipeline of shrimp-notes     *)
(* (src/drawing.js): PointerState / PointerTool, the DrawingTool listener  *)
(* registry behind Svg.draw, and the PathDrawer and ElementRemover tools.  *)
(***************************************************************************)
EXTENDS Integers, Sequences, FiniteSets, TLC

VARIABLES
    surface,         \* svg.node: [viewBox, preserveAspectRatio] (their baseVal)
    aligner,         \* the function alignXYFn(svg.node) returned: the
                     \* preserveAspectRatio values its switches selected on
    aligned,         \* the latest application of the function alignXYFn(svg.node)
                     \* returned: its arguments and its result
    pointer,         \* PointerTool.pointer: [buttons, point, state]
    drawingPointer,  \* Svg.drawingPointer: FALSE (null) or TRUE (the PointerTool exists)
    drawingTool,     \* Svg.drawingTool: "null" or a tool
    listeners,       \* DRAW/END listeners attached to svg.node, in registration order
    raw,             \* PointerEvent listeners attached to svg.node, in registration
                     \* order: <<name, k>> is the listener of the k-th PointerTool made
    children,        \* ids of the elements that are children of svg.node, in DOM order
    d,               \* path data of every live element: id -> sequence of commands
    path,            \* PathDrawer.path: "null" (null/undefined) or the id of the open path
    last,            \* the call or raw PointerEvent handled by the latest step
    out,             \* CustomEvents dispatched on the node by the latest step
    calls,           \* tool handlers invoked by the latest step: <<tool, name>>
    threw,           \* whether a listener of the latest step threw
    hitTest,         \* what document.elementFromPoint returned to the latest step
                     \* ("none" when the step made no hit-test)
    removed,         \* the elements the latest step removed from the document
    before,          \* PointerTool.pointer.state as it was when the latest step began
    veto,            \* monitor: kind of the non-primary pointerdown that directly
                     \* followed the latest primary pointerdown ("none" if there is none)
    lastDraw,        \* monitor: the latest svg.draw call: its argument, the tool
                     \* attached when it was made, and the pointer state then
    stroke,          \* monitor: the client points of the gesture in progress, and the
                     \* children the surface had when it began
    down,            \* monitor: MouseEvent.buttons and point of the primary pointerdown that began
                     \* the latest gesture (buttons -1 before the first one)
    built,           \* monitor: the viewBox and preserveAspectRatio the surface had
                     \* when alignXYFn(svg.node) was called
    isDrawing,       \* dispatchers (src/docs/scripts/drawing.js): whether START was fired
    timeout,         \* dispatchers: the pointerdown debounce, 0 (null) or a timer id
    timers,          \* the pending timers of setTimeout, oldest first: [id, buttons, point]
    timerId,         \* the id setTimeout returned last (0 before the first timer)
    begun,           \* monitor: a START was dispatched and no END since
    vetoed,          \* monitor: the ids of the pending timers whose pointerdown was
                     \* followed by a non-primary pointerdown
    released,        \* monitor: the ids of the pending timers whose pointerdown was
                     \* followed by a primary pointerup or pointerleave
    attrsMap         \* DrawingAttributes.attrsMap (src/docs/scripts/main.js): for each
                     \* name <<>> (no entry) or <<the "stroke-width" of its attributes>>

vars == <<surface, aligner, aligned, pointer, drawingPointer, drawingTool, listeners, raw,
          children, d, path, last, out, calls, threw, hitTest, removed, before, veto, lastDraw,
          stroke, down, built, isDrawing, timeout, timers, timerId, begun, vetoed, released,
          attrsMap>>

\* The state of the PointerTool, the registry, the document and the tools, and
\* of their monitors.
drawingVars == <<pointer, drawingPointer, drawingTool, listeners, raw, children, d, path,
                 last, out, calls, threw, hitTest, removed, before, veto, lastDraw, stroke,
                 down>>

\* The state of the debounced dispatchers and of their monitors, and of the
\* application's attributes.
debounceVars == <<isDrawing, timeout, timers, timerId, begun, vetoed, released, attrsMap>>

----------------------------------------------------------------------------
\* Bounds of the model.

\* Total number of path commands held by live path elements.
MaxCmds == 4

\* Number of debounce timers set in a behaviour.
MaxTimers == 3

\* Bits in the significand of a number (53 in the binary64 format of
\* JavaScript).
Precision == 4

\* Client coordinates delivered by pointer events (x differs from y in each).
Points == {<<1, 2>>, <<3, 4>>}

\* MouseEvent.buttons values delivered by pointerdown events; 0 stands for 0
\* and for undefined (both falsy).  35 = 1 | 2 | 32.
Buttons == {0, 2, 32, 35}

\* MouseEvent.buttons of pointermove events (a button is held) and of
\* pointerup / pointerleave events (none is); the handlers do not read them.
MoveButtons == {1}
UpButtons == {0}

\* The tools handed to svg.draw: a PathDrawer and an ElementRemover.
Tools == {"pen", "eraser"}

\* currentTarget.getBoundingClientRect() of the surface.
Rect == [x |-> 1, y |-> 1, width |-> 2, height |-> 4]

\* node.viewBox.baseVal and node.preserveAspectRatio.baseVal of the surface.
ViewBox == [x |-> 0, y |-> 0, width |-> 4, height |-> 4]
Fit == [align |-> "xMidYMid", meetOrSlice |-> "meet"]

\* The surfaces an aligner is made for: origin and size of the viewBox, and
\* preserveAspectRatio.
BoxOrigins == {0, 2}
BoxSizes == {3, 4, 13}
Aligns == {"none", "xMinYMin", "xMidYMid", "xMaxYMax", "xMidYMax", "xMaxYMin"}
MeetOrSlices == {"unknown", "meet", "slice"}

\* The viewport-relative coordinates an aligner is applied to, as <<n, d>>
\* (each has a significand of at most Precision bits), and the sizes of the
\* viewport.
Coords == {<<0, 1>>, <<2, 1>>, <<4, 1>>, <<5, 1>>, <<7, 1>>, <<7, 2>>}
ViewportSizes == {<<3, 1>>, <<4, 1>>}

----------------------------------------------------------------------------
\* Numbers.  A JavaScript number is a binary floating-point number; it is
\* modelled as the rational <<n, d>>, d > 0, in lowest terms, that it stands
\* for, and every arithmetic operation rounds its exact result to the nearest
\* number with a significand of Precision bits, ties to even (IEEE 754; the
\* exponent range is not bounded).

RECURSIVE BitAnd(_, _)
BitAnd(a, b) ==
    IF a = 0 \/ b = 0 THEN 0
    ELSE (a % 2) * (b % 2) + 2 * BitAnd(a \div 2, b \div 2)

Abs(n) == IF n < 0 THEN -n ELSE n

RECURSIVE Gcd(_, _)
Gcd(a, b) == IF b = 0 THEN a ELSE Gcd(b, a % b)

Norm(n, m) ==
    LET s == IF m < 0 THEN -1 ELSE 1
        g == Gcd(Abs(n), Abs(m))
    IN  <<(s * n) \div g, (s * m) \div g>>

Num(n) == <<n, 1>>
RAdd(a, b) == Norm(a[1] * b[2] + b[1] * a[2], a[2] * b[2])
RSub(a, b) == Norm(a[1] * b[2] - b[1] * a[2], a[2] * b[2])
RMul(a, b) == Norm(a[1] * b[1], a[2] * b[2])
RDiv(a, b) == Norm(a[1] * b[2], a[2] * b[1])
RLess(a, b) == a[1] * b[2] < b[1] * a[2]

RECURSIVE Pow2(_)
Pow2(k) == IF k = 0 THEN 1 ELSE 2 * Pow2(k - 1)

\* The significands of the numbers other than 0 are MinSig .. MaxSig - 1.
MinSig == Pow2(Precision - 1)
MaxSig == Pow2(Precision)

\* The number nearest to (n / m) * (up / dn), for m, up, dn > 0: n / m is
\* scaled by powers of 2 until the integer part of |n / m| is a significand.
RECURSIVE Round(_, _, _, _)
Round(n, m, up, dn) ==
    IF n = 0 THEN <<0, 1>>
    ELSE IF Abs(n) >= MaxSig * m THEN Round(n, 2 * m, 2 * up, dn)
    ELSE IF Abs(n) < MinSig * m THEN Round(2 * n, m, up, 2 * dn)
    ELSE LET q == Abs(n) \div m
             r == Abs(n) % m
             sig == IF 2 * r > m \/ (2 * r = m /\ q % 2 = 1) THEN q + 1 ELSE q
         IN  Norm((IF n < 0 THEN -sig ELSE sig) * up, dn)

\* The number a rational is rounded to.
Fl(a) == Round(a[1], a[2], 1, 1)

\* The operators +, -, * and / of JavaScript: the exact result, rounded.
FAdd(a, b) == Round(a[1] * b[2] + b[1] * a[2], a[2] * b[2], 1, 1)
FSub(a, b) == Round(a[1] * b[2] - b[1] * a[2], a[2] * b[2], 1, 1)
FMul(a, b) == Round(a[1] * b[1], a[2] * b[2], 1, 1)
FDiv(a, b) == Fl(RDiv(a, b))

----------------------------------------------------------------------------
\* SVG.DrawingTool.alignXYFn

scaleDown(box, width, height) ==
    LET xScale == FDiv(Num(box.width), width)
        yScale == FDiv(Num(box.height), height)
    IN  IF RLess(yScale, xScale) THEN yScale ELSE xScale

\* Faulty variant of scaleUp: the smaller of the two scales is chosen.
scaleUp_Smaller(box, width, height) ==
    LET xScale == FDiv(Num(box.width), width)
        yScale == FDiv(Num(box.height), height)
    IN  IF RLess(xScale, yScale) THEN xScale ELSE yScale

scaleUp(box, width, height) ==
    LET xScale == FDiv(Num(box.width), width)
        yScale == FDiv(Num(box.height), height)
    IN  IF RLess(xScale, yScale) THEN yScale ELSE xScale

\* Faulty variant of xMax: the viewport width is not subtracted.
xMax_FromOrigin(box, scale, x, w) ==
    FAdd(FAdd(FMul(x, scale), Num(box.x)), Num(box.width))

xMax(box, scale, x, w) ==
    FAdd(FAdd(FMul(FSub(x, w), scale), Num(box.x)), Num(box.width))

\* Faulty variant of xMid: the free space is not halved.
xMid_NoHalf(box, scale, x, w) ==
    FAdd(FAdd(FMul(x, scale), Num(box.x)),
         FSub(Num(box.width), FMul(w, scale)))

xMid(box, scale, x, w) ==
    FAdd(FAdd(FMul(x, scale), Num(box.x)),
         FDiv(FSub(Num(box.width), FMul(w, scale)), Num(2)))
xMin(box, scale, x, w) == FAdd(FMul(x, scale), Num(box.x))
yMax(box, scale, y, h) ==
    FAdd(FAdd(FMul(FSub(y, h), scale), Num(box.y)), Num(box.height))
yMid(box, scale, y, h) ==
    FAdd(FAdd(FMul(y, scale), Num(box.y)),
         FDiv(FSub(Num(box.height), FMul(h, scale)), Num(2)))
yMin(box, scale, y, h) == FAdd(FMul(y, scale), Num(box.y))

\* Faulty variant of scaleFn: "slice" scales up as "meet" does.
scaleFn_AlwaysUp(box, fit, width, height) == scaleUp(box, width, height)

scaleFn(box, fit, width, height) ==
    IF fit.meetOrSlice = "slice" THEN scaleDown(box, width, height)
    ELSE scaleUp(box, width, height)

\* Faulty variant of nonuniformFn: width and height change places.
nonuniformFn_SwappedDims(box, x, y, width, height) ==
    <<FAdd(FDiv(FMul(x, Num(box.width)), height), Num(box.x)),
      FAdd(FDiv(FMul(y, Num(box.height)), width), Num(box.y))>>

nonuniformFn(box, x, y, width, height) ==
    <<FAdd(FDiv(FMul(x, Num(box.width)), width), Num(box.x)),
      FAdd(FDiv(FMul(y, Num(box.height)), height), Num(box.y))>>

xAlignFn(box, fit, scale, x, w) ==
    CASE fit.align \in {"xMinYMin", "xMinYMid", "xMinYMax"} -> xMin(box, scale, x, w)
      [] fit.align \in {"xMaxYMin", "xMaxYMid", "xMaxYMax"} -> xMax(box, scale, x, w)
      [] OTHER -> xMid(box, scale, x, w)

yAlignFn(box, fit, scale, y, h) ==
    CASE fit.align \in {"xMinYMin", "xMidYMin", "xMaxYMin"} -> yMin(box, scale, y, h)
      [] fit.align \in {"xMinYMax", "xMidYMax", "xMaxYMax"} -> yMax(box, scale, y, h)
      [] OTHER -> yMid(box, scale, y, h)

\* The function alignXYFn(node) returns, applied to (x, y, width, height).
alignXYFn(box, fit, x, y, width, height) ==
    IF fit.align = "none" THEN nonuniformFn(box, x, y, width, height)
    ELSE LET scale == scaleFn(box, fit, width, height)
         IN  <<xAlignFn(box, fit, scale, x, width), yAlignFn(box, fit, scale, y, height)>>

----------------------------------------------------------------------------
\* SVG.DrawingTool: event names and makeEvent

DRAW == "drawing"
END == "drawingend"
NAMES == <<DRAW, END>>

\* Faulty variant of makeEvent: the initial and the current point change places.
makeEvent_Swapped(name, e, buttons, point) ==
    [name |-> name,
     detail |-> [init |-> <<e.clientX, e.clientY>>,
                 isPrimaryButton |-> BitAnd(buttons, 1),
                 isEraserButton |-> BitAnd(buttons, 32),
                 point |-> point,
                 rect |-> Rect]]

\* src/drawing.js: makeEvent.  The detail of the CustomEvent; currentTarget is
\* always the surface node and is left out.
makeEvent(name, e, buttons, point) ==
    [name |-> name,
     detail |-> [init |-> point,
                 isPrimaryButton |-> BitAnd(buttons, 1),
                 isEraserButton |-> BitAnd(buttons, 32),
                 point |-> <<e.clientX, e.clientY>>,
                 rect |-> Rect]]

drawEvent(e, p) == makeEvent(DRAW, e, p.buttons, p.point)

\* Faulty variant of endEvent: the roles are those of the buttons of the
\* event itself.
endEvent_EventButtons(e, p) == makeEvent(END, e, e.buttons, p.point)

endEvent(e, p) == makeEvent(END, e, p.buttons, p.point)

----------------------------------------------------------------------------
\* PointerState

NONE == 0
INIT == 1
MOVING == 2
VALID_BUTTONS == 33

\* Faulty variant of init: the coordinates of the point change places.
init_Transposed(x, y, buttons) == [buttons |-> buttons, point |-> <<y, x>>, state |-> INIT]

init(x, y, buttons) == [buttons |-> buttons, point |-> <<x, y>>, state |-> INIT]

\* Faulty variant of moving: the recorded initial point is dropped.
moving_DropsPoint(p) == [p EXCEPT !.state = MOVING, !.point = <<>>]
moving(p) == [p EXCEPT !.state = MOVING]
reset == [buttons |-> 0, point |-> <<>>, state |-> NONE]

----------------------------------------------------------------------------
\* The document and the tools.  A world w is the part of the state the tool
\* handlers read and write: [children, d, path, calls, threw, hit, removed].

\* Element ids, in the order new elements take them.
IdOrder == <<"e1", "e2", "e3">>
ElemIds == {IdOrder[i] : i \in 1..Len(IdOrder)}

Range(s) == {s[i] : i \in 1..Len(s)}

RECURSIVE Without(_, _)
Without(s, x) ==
    IF s = <<>> THEN <<>>
    ELSE IF Head(s) = x THEN Without(Tail(s), x)
    ELSE <<Head(s)>> \o Without(Tail(s), x)

\* Elements nothing refers to any more (neither the DOM nor PathDrawer.path)
\* are dropped.
Live(w) == Range(w.children) \cup (IF w.path = "null" THEN {} ELSE {w.path})
Collect(w) == [w EXCEPT !.d = [i \in (DOMAIN w.d) \cap Live(w) |-> w.d[i]]]

NewId(w) == IdOrder[CHOOSE i \in 1..Len(IdOrder) :
                /\ IdOrder[i] \notin DOMAIN w.d
                /\ \A j \in 1..(i - 1) : IdOrder[j] \in DOMAIN w.d]

\* What document.elementFromPoint can return for a point: null (no element
\* there, e.g. a point outside the viewport), the surface root, an element
\* outside the surface, or a child of the surface.
Hits(ch) == {"null", "root", "outside"} \cup Range(ch)

\* e.remove()
remove(w, e) ==
    [w EXCEPT !.children = Without(@, e), !.removed = Append(@, e)]

\* Faulty variant of removeChildFromPoint: the hit is not compared with the
\* surface (t.contains(t) is true).
removeChildFromPoint_NoRootTest(w, hit) ==
    LET w0 == [w EXCEPT !.hit = hit]
        isRemovable == hit \in Range(w.children) \cup {"root"}
    IN  IF hit = "null" THEN [w0 EXCEPT !.threw = TRUE]
        ELSE IF isRemovable THEN remove(w0, hit) ELSE w0

\* SVG.DrawingTool.removeChildFromPoint, with hit = document.elementFromPoint(...c.point).
\* A null hit makes e.parentNode throw a TypeError.
removeChildFromPoint(w, hit) ==
    LET w0 == [w EXCEPT !.hit = hit]
        isRemovable == hit # "root" /\ hit \in Range(w.children)
    IN  IF hit = "null" THEN [w0 EXCEPT !.threw = TRUE]
        ELSE IF isRemovable THEN remove(w0, hit) ELSE w0

\* PathDrawer.getPosition: this.align(x - rect.x, y - rect.y, rect.width, rect.height)
getPosition(pt, rect) ==
    alignXYFn(surface.viewBox, aligner,
              Num(pt[1] - rect.x), Num(pt[2] - rect.y),
              Num(rect.width), Num(rect.height))

\* PathDrawer.drawingStart
drawingStart(w, pos) ==
    LET id == NewId(w)
        initPoint == <<<<"M", pos[1], pos[2]>>, <<"l", Num(0), Num(0)>>>>
    IN  [w EXCEPT !.children = Append(@, id),
                  !.d = [i \in (DOMAIN @) \cup {id} |-> IF i = id THEN initPoint ELSE @[i]],
                  !.path = id]

\* Faulty variant of PathDrawer[DRAW]: a new path is opened at the current point
\* instead of the initial point.
PathDrawerDraw_StartAtPoint(w, e, hit) ==
    IF e.isEraserButton # 0 THEN removeChildFromPoint(w, hit)
    ELSE LET w1 == IF w.path = "null" THEN drawingStart(w, getPosition(e.point, e.rect))
                   ELSE w
             pos == getPosition(e.point, e.rect)
             newPoint == <<"L", pos[1], pos[2]>>
         IN  [w1 EXCEPT !.d[w1.path] = Append(@, newPoint)]

\* PathDrawer[DRAW]
PathDrawerDraw(w, e, hit) ==
    IF e.isEraserButton # 0 THEN removeChildFromPoint(w, hit)
    ELSE LET w1 == IF w.path = "null" THEN drawingStart(w, getPosition(e.init, e.rect))
                   ELSE w
             pos == getPosition(e.point, e.rect)
             newPoint == <<"L", pos[1], pos[2]>>
         IN  [w1 EXCEPT !.d[w1.path] = Append(@, newPoint)]

\* Faulty variant of PathDrawer[END]: a tap leaves no mark.
PathDrawerEnd_NoMark(w, e, hit) ==
    IF e.isEraserButton # 0 /\ hit = "null" THEN removeChildFromPoint(w, hit)
    ELSE LET w1 == IF e.isEraserButton # 0 THEN removeChildFromPoint(w, hit) ELSE w
         IN  [w1 EXCEPT !.path = "null"]

\* PathDrawer[END]
PathDrawerEnd(w, e, hit) ==
    IF e.isEraserButton # 0 /\ hit = "null" THEN removeChildFromPoint(w, hit)
    ELSE LET w1 == IF e.isEraserButton # 0 THEN removeChildFromPoint(w, hit)
                   ELSE IF w.path = "null"
                        THEN drawingStart(w, getPosition(e.point, e.rect))
                        ELSE w
         IN  [w1 EXCEPT !.path = "null"]

\* ElementRemover[DRAW] and ElementRemover[END]
ElementRemoverDraw(w, e, hit) == removeChildFromPoint(w, hit)
ElementRemoverEnd(w, e, hit) == removeChildFromPoint(w, hit)

\* The listener a DrawingTool registers for name n: (e) => this[n]?.(e.detail)
Listener(tool, n, w, detail, hit) ==
    LET w0 == [w EXCEPT !.calls = Append(@, <<tool, n>>)]
    IN  CASE tool = "pen" /\ n = DRAW -> PathDrawerDraw(w0, detail, hit)
          [] tool = "pen" /\ n = END -> PathDrawerEnd(w0, detail, hit)
          [] tool = "eraser" /\ n = DRAW -> ElementRemoverDraw(w0, detail, hit)
          [] tool = "eraser" /\ n = END -> ElementRemoverEnd(w0, detail, hit)
          [] OTHER -> w0

\* node.dispatchEvent(ev): every listener registered for ev.name runs, in
\* registration order; a listener that throws does not stop the others.
RECURSIVE dispatchEvent(_, _, _, _)
dispatchEvent(ls, w, ev, hit) ==
    IF ls = <<>> THEN w
    ELSE LET l == Head(ls)
             w1 == IF l[1] = ev.name THEN Listener(l[2], l[1], w, ev.detail, hit) ELSE w
         IN  dispatchEvent(Tail(ls), w1, ev, hit)

\* DrawingTool.addTo / removeFrom: addEventListener ignores a listener that is
\* already registered, removeEventListener one that is not.
\* Faulty variant of addTo: only the DRAW listener is added.
addTo_DrawOnly(ls, tool, i) ==
    IF <<DRAW, tool>> \in Range(ls) THEN ls ELSE Append(ls, <<DRAW, tool>>)

RECURSIVE addTo(_, _, _)
addTo(ls, tool, i) ==
    IF i > Len(NAMES) THEN ls
    ELSE addTo(IF <<NAMES[i], tool>> \in Range(ls) THEN ls
               ELSE Append(ls, <<NAMES[i], tool>>), tool, i + 1)

\* Faulty variant of removeFrom: only the DRAW listener is removed.
removeFrom_DrawOnly(ls, tool, i) == Without(ls, <<DRAW, tool>>)

RECURSIVE removeFrom(_, _, _)
removeFrom(ls, tool, i) ==
    IF i > Len(NAMES) THEN ls
    ELSE removeFrom(Without(ls, <<NAMES[i], tool>>), tool, i + 1)

----------------------------------------------------------------------------
\* Svg.draw(tool); tool = "false" stands for a falsy argument.  r is the
\* registry [drawingPointer, raw, drawingTool, listeners, threw].

PointerToolNAMES == <<"pointerdown", "pointerleave", "pointermove", "pointerup">>

\* Svg.drawPointer: new PointerTool(node).  The listeners of a new PointerTool
\* are new functions, so none of them is taken for one already registered.
drawPointer(rw) ==
    LET k == Cardinality({rw[i][2] : i \in 1..Len(rw)}) + 1
    IN  rw \o [i \in 1..Len(PointerToolNAMES) |-> <<PointerToolNAMES[i], k>>]

\* Faulty variant of the lazy creation: every call makes a PointerTool.
lazyPointer_Always(r) ==
    [r EXCEPT !.drawingPointer = TRUE, !.raw = drawPointer(@)]

\* this.drawingPointer = this.drawingPointer || this.drawPointer()
lazyPointer(r) ==
    IF r.drawingPointer THEN r
    ELSE [r EXCEPT !.drawingPointer = TRUE, !.raw = drawPointer(@)]

\* Faulty variants of the falsy branch: the listeners stay attached; the
\* tool is dereferenced without the optional chaining.
drawFalse_Noop(r) == r

drawFalse_NoGuard(r) ==
    IF r.drawingTool = "null" THEN [r EXCEPT !.threw = TRUE]
    ELSE [r EXCEPT !.listeners = removeFrom(@, r.drawingTool, 1)]

\* Faulty variant of the falsy branch: the tool of record is cleared.
drawFalse_Clears(r) ==
    IF r.drawingTool = "null" THEN r
    ELSE [r EXCEPT !.listeners = removeFrom(@, r.drawingTool, 1), !.drawingTool = "null"]

\* The falsy branch: this.drawingTool?.removeFrom?.(this.node)
drawFalse(r) ==
    IF r.drawingTool = "null" THEN r
    ELSE [r EXCEPT !.listeners = removeFrom(@, r.drawingTool, 1)]

\* Faulty variants of draw: the listeners of the previous tool stay attached;
\* the listeners of the previous tool are removed after those of the new
\* tool are added.
draw_KeepOld(r, tool) ==
    LET r0 == lazyPointer(r)
    IN  IF tool # "false"
        THEN [r0 EXCEPT !.drawingTool = tool, !.listeners = addTo(@, tool, 1)]
        ELSE drawFalse(r0)

draw_AddFirst(r, tool) ==
    LET r0 == lazyPointer(r)
    IN  IF tool # "false"
        THEN LET r1 == [r0 EXCEPT !.listeners = addTo(@, tool, 1)]
                 r2 == drawFalse(r1)
             IN  [r2 EXCEPT !.drawingTool = tool]
        ELSE drawFalse(r0)

draw(r, tool) ==
    LET r0 == lazyPointer(r)
    IN  IF tool # "false"
        THEN LET r1 == drawFalse(r0)
             IN  IF r1.threw THEN r1
                 ELSE [r1 EXCEPT !.drawingTool = tool,
                                 !.listeners = addTo(r1.listeners, tool, 1)]
        ELSE drawFalse(r0)

----------------------------------------------------------------------------
\* PointerTool handlers: the new PointerState and the CustomEvents dispatched.

\* Faulty variant of e.buttons || 1: an unreported mask is not defaulted.
ButtonsOr1_Raw(e) == e.buttons

\* e.buttons || 1
ButtonsOr1(e) == IF e.buttons = 0 THEN 1 ELSE e.buttons

\* Faulty variants of pointerdown: a non-primary pointerdown does not reset; it resets
\* only from INIT; the raw mask is recorded; an unsupported mask resets.
pointerdown_NoVeto(p, e) ==
    LET buttons == BitAnd(ButtonsOr1(e), VALID_BUTTONS)
    IN  [pointer |-> IF buttons # 0 /\ e.isPrimary
                     THEN init(e.clientX, e.clientY, buttons)
                     ELSE p,
         events |-> <<>>]

pointerdown_VetoInitOnly(p, e) ==
    LET buttons == BitAnd(ButtonsOr1(e), VALID_BUTTONS)
    IN  [pointer |-> IF buttons # 0
                     THEN IF e.isPrimary THEN init(e.clientX, e.clientY, buttons)
                          ELSE IF p.state = INIT THEN reset ELSE p
                     ELSE p,
         events |-> <<>>]

pointerdown_RawMask(p, e) ==
    LET buttons == BitAnd(ButtonsOr1(e), VALID_BUTTONS)
    IN  [pointer |-> IF buttons # 0
                     THEN IF e.isPrimary
                          THEN init(e.clientX, e.clientY, ButtonsOr1(e))
                          ELSE reset
                     ELSE p,
         events |-> <<>>]

pointerdown_ResetInvalid(p, e) ==
    LET buttons == BitAnd(ButtonsOr1(e), VALID_BUTTONS)
    IN  [pointer |-> IF buttons # 0 /\ e.isPrimary
                     THEN init(e.clientX, e.clientY, buttons)
                     ELSE reset,
         events |-> <<>>]

pointerdown(p, e) ==
    LET buttons == BitAnd(ButtonsOr1(e), VALID_BUTTONS)
    IN  [pointer |-> IF buttons # 0
                     THEN IF e.isPrimary THEN init(e.clientX, e.clientY, buttons)
                          ELSE reset
                     ELSE p,
         events |-> <<>>]

\* Faulty variant of pointermove: the moves of every contact are processed.
pointermove_AnyContact(p, e) ==
    IF p.state # NONE
    THEN [pointer |-> moving(p), events |-> <<drawEvent(e, moving(p))>>]
    ELSE [pointer |-> p, events |-> <<>>]

pointermove(p, e) ==
    IF p.state # NONE /\ e.isPrimary
    THEN [pointer |-> moving(p), events |-> <<drawEvent(e, moving(p))>>]
    ELSE [pointer |-> p, events |-> <<>>]

\* Faulty variant of pointerup: END is dispatched and the state is kept.
pointerup_KeepsState(p, e) ==
    IF p.state # NONE /\ e.isPrimary
    THEN [pointer |-> p, events |-> <<endEvent(e, p)>>]
    ELSE [pointer |-> p, events |-> <<>>]

pointerup(p, e) ==
    IF p.state # NONE /\ e.isPrimary
    THEN [pointer |-> reset, events |-> <<endEvent(e, p)>>]
    ELSE [pointer |-> p, events |-> <<>>]

\* Faulty variant of pointerleave: leaving the surface is not handled.
pointerleave_Ignored(p, e) == [pointer |-> p, events |-> <<>>]

pointerleave(p, e) == pointerup(p, e)

-----------------------------------------------------------------------------
\* DrawingApp and DrawingAttributes (src/docs/scripts/main.js).  The viewBox
\* attribute of the node is a string, here the sequence of its characters
\* (<<>> when the node has no such attribute); a JavaScript value is a record
\* of its type and its number or string.

JSNumber(n) == [t |-> "number", n |-> n, s |-> ""]
JSString(s) == [t |-> "string", n |-> 0, s |-> s]
Undefined == [t |-> "undefined", n |-> 0, s |-> ""]

DigitChars == <<"0", "1", "2", "3", "4", "5", "6", "7", "8", "9">>

\* The decimal digits of a natural number.
RECURSIVE DigitsOf(_)
DigitsOf(n) ==
    IF n < 10 THEN <<DigitChars[n + 1]>>
    ELSE Append(DigitsOf(n \div 10), DigitChars[(n % 10) + 1])

\* `${n}` of a template literal, for an integer.
NumberToString(n) == IF n < 0 THEN <<"-">> \o DigitsOf(-n) ELSE DigitsOf(n)

\* The number a string of the viewBox attribute stands for.
RECURSIVE ParseDigits(_, _)
ParseDigits(s, acc) ==
    IF s = <<>> THEN acc
    ELSE ParseDigits(Tail(s),
                     10 * acc + (CHOOSE k \in 0..9 : DigitChars[k + 1] = Head(s)))
ParseNumber(s) == IF Head(s) = "-" THEN -ParseDigits(Tail(s), 0) ELSE ParseDigits(s, 0)

\* The strings between the spaces of s (cur is the string being read).
RECURSIVE SplitSpaces(_, _)
SplitSpaces(s, cur) ==
    IF s = <<>> THEN <<cur>>
    ELSE IF Head(s) = " " THEN <<cur>> \o SplitSpaces(Tail(s), <<>>)
    ELSE SplitSpaces(Tail(s), Append(cur, Head(s)))

\* node.viewBox.baseVal with the defaults of the destructuring, for a node
\* without the attribute too.
baseVal(attr) ==
    IF attr = <<>> THEN [x |-> 0, y |-> 0, width |-> 0, height |-> 0]
    ELSE LET n == SplitSpaces(attr, <<>>)
         IN  [x |-> ParseNumber(n[1]), y |-> ParseNumber(n[2]),
              width |-> ParseNumber(n[3]), height |-> ParseNumber(n[4])]

\* `${x} ${y} ${w} ${h}`
viewBoxAttr(x, y, w, h) ==
    NumberToString(x) \o <<" ">> \o NumberToString(y) \o <<" ">>
        \o NumberToString(w) \o <<" ">> \o NumberToString(h)

\* a || b || c of numbers: the first that is not 0.
alignDimensions(node) ==
    <<IF node.bBox[1] # 0 THEN node.bBox[1]
      ELSE IF node.rect[1] # 0 THEN node.rect[1] ELSE 300,
      IF node.bBox[2] # 0 THEN node.bBox[2]
      ELSE IF node.rect[2] # 0 THEN node.rect[2] ELSE 150>>

\* Faulty variant of validateViewBox: only a viewBox whose width and height
\* are both non-positive is replaced.
validateViewBox_BothInvalid(node) ==
    LET box == baseVal(node.viewBox)
        dim == alignDimensions(node)
    IN  IF box.width <= 0 /\ box.height <= 0
        THEN [node EXCEPT !.viewBox = viewBoxAttr(box.x, box.y, dim[1], dim[2])]
        ELSE node

validateViewBox(node) ==
    LET box == baseVal(node.viewBox)
        dim == alignDimensions(node)
    IN  IF box.width <= 0 \/ box.height <= 0
        THEN [node EXCEPT !.viewBox = viewBoxAttr(box.x, box.y, dim[1], dim[2])]
        ELSE node

widths == <<JSNumber(1), JSNumber(2), JSNumber(3), JSNumber(5), JSNumber(10), JSNumber(20)>>

\* array[item] of JavaScript: undefined outside the indices 0 .. length - 1.
At(array, item) == IF item + 1 \in DOMAIN array THEN array[item + 1] ELSE Undefined

\* setSize -> setWidth -> setAttribute: the attributes of the name are made
\* if there are none, and their "stroke-width" is set.
setSize(map, name, item) ==
    LET length == Len(widths)
        i == IF item > length THEN length ELSE IF item < 0 THEN 0 ELSE item
    IN  [map EXCEPT ![name] = <<At(widths, i)>>]

\* The names of the attribute objects of the toolbar.
AttrNames == {"pen", "marker"}
NoAttrs == [name \in AttrNames |-> <<>>]

-----------------------------------------------------------------------------
\* SVG.Drawing.dispatchers (src/docs/scripts/drawing.js): the debounced
\* dispatchers.  s is their state [isDrawing, timeout, timers, timerId]; a
\* handler gives the state after it and the CustomEvents it dispatches.

START == "drawingstart"
ButtonsMask == 33

\* dispatchEvent(name, node, buttons, [x, y]): the CustomEvent; node and rect
\* are those of the surface and are left out.
customEvent(name, buttons, point) ==
    [name |-> name, detail |-> [buttons |-> buttons, point |-> point]]

\* (e.buttons || 1) & buttonsMask
filterButtons(e) == BitAnd(ButtonsOr1(e), ButtonsMask)

\* clearTimeout(id): the pending timer of that id, if there is one, is dropped.
clearTimeout(ts, id) == SelectSeq(ts, LAMBDA t : t.id # id)

\* setTimeout(() => ..., debounce) with node, buttons and point in the closure.
setTimeout(ts, id, buttons, point) ==
    Append(ts, [id |-> id, buttons |-> buttons, point |-> point])

dispatchersPointerdown(s, e) ==
    LET buttons == filterButtons(e)
    IN  IF buttons = 0 THEN [state |-> s, events |-> <<>>]
        ELSE IF e.isPrimary
        THEN [state |-> [s EXCEPT !.timers = setTimeout(clearTimeout(s.timers, s.timeout),
                                                       s.timerId + 1, buttons,
                                                       <<e.clientX, e.clientY>>),
                                  !.timeout = s.timerId + 1,
                                  !.timerId = s.timerId + 1],
              events |-> <<>>]
        ELSE [state |-> [s EXCEPT !.timeout = 0], events |-> <<>>]

\* The function given to setTimeout, run for the oldest pending timer.
dispatchersTimeout(s) ==
    LET t == Head(s.timers)
    IN  IF s.timeout # 0
        THEN [state |-> [s EXCEPT !.timers = Tail(@), !.isDrawing = TRUE, !.timeout = 0],
              events |-> <<customEvent(START, t.buttons, t.point)>>]
        ELSE [state |-> [s EXCEPT !.timers = Tail(@)], events |-> <<>>]

dispatchersPointermove(s, e) ==
    IF e.isPrimary /\ s.isDrawing
    THEN [state |-> s,
          events |-> <<customEvent(DRAW, filterButtons(e), <<e.clientX, e.clientY>>)>>]
    ELSE [state |-> s, events |-> <<>>]

dispatchersPointerup(s, e) ==
    IF e.isPrimary /\ s.isDrawing
    THEN [state |-> [s EXCEPT !.isDrawing = FALSE, !.timeout = 0],
          events |-> <<customEvent(END, filterButtons(e), <<e.clientX, e.clientY>>)>>]
    ELSE [state |-> s, events |-> <<>>]

\* ["pointerleave", pointerup]
dispatchersPointerleave(s, e) == dispatchersPointerup(s, e)

----------------------------------------------------------------------------
\* The raw events and the steps.

\* The PointerEvents of a type an input alphabet al = [buttons, primary,
\* points] holds, with buttons among bs.
PointerEvents(type, al, bs) ==
    {[type |-> type, isPrimary |-> ip, buttons |-> b,
      clientX |-> pt[1], clientY |-> pt[2], tool |-> "null"] :
        ip \in al.primary, b \in bs, pt \in al.points}

DrawCall(tool) ==
    [type |-> "draw", isPrimary |-> FALSE, buttons |-> 0,
     clientX |-> 0, clientY |-> 0, tool |-> tool]

NoCall == [type |-> "none", isPrimary |-> FALSE, buttons |-> 0,
           clientX |-> 0, clientY |-> 0, tool |-> "null"]

\* The tool whose listeners are attached to the node ("null" when none are).
Attached(ls) == IF ls = <<>> THEN "null" ELSE ls[1][2]

RECURSIVE SumLen(_, _)
SumLen(f, S) ==
    IF S = {} THEN 0
    ELSE LET i == CHOOSE j \in S : TRUE IN Len(f[i]) + SumLen(f, S \ {i})
TotalCmds(w) == SumLen(w.d, DOMAIN w.d)

RECURSIVE dispatchAll(_, _, _, _)
dispatchAll(ls, w, evs, hit) ==
    IF evs = <<>> THEN w
    ELSE dispatchAll(ls, dispatchEvent(ls, w, Head(evs), hit), Tail(evs), hit)

\* A raw PointerEvent e is delivered to the PointerTool, whose handler gives
\* r; the listeners of the node run on each CustomEvent it dispatches.
Deliver(e, r) ==
    \E w \in {Collect(dispatchAll(listeners,
                                  [children |-> children, d |-> d, path |-> path,
                                   calls |-> <<>>, threw |-> FALSE,
                                   hit |-> "none", removed |-> <<>>],
                                  r.events, hit)) :
                hit \in (IF r.events = <<>> THEN {"root"} ELSE Hits(children))} :
        /\ TotalCmds(w) <= MaxCmds
        /\ pointer' = r.pointer
        /\ out' = r.events
        /\ children' = w.children
        /\ d' = w.d
        /\ path' = w.path
        /\ calls' = w.calls
        /\ threw' = w.threw
        /\ hitTest' = w.hit
        /\ removed' = w.removed
        /\ last' = e
        /\ before' = pointer.state
        /\ UNCHANGED <<drawingPointer, drawingTool, listeners, raw>>

PointerDown(al) ==
    \E e \in PointerEvents("pointerdown", al, al.buttons) :
        /\ drawingPointer
        /\ \E r \in {pointerdown(pointer, e)} : Deliver(e, r)

PointerMove(al) ==
    \E e \in PointerEvents("pointermove", al, MoveButtons) :
        /\ drawingPointer
        /\ \E r \in {pointermove(pointer, e)} : Deliver(e, r)

PointerUp(al) ==
    \E e \in PointerEvents("pointerup", al, UpButtons) :
        /\ drawingPointer
        /\ \E r \in {pointerup(pointer, e)} : Deliver(e, r)

PointerLeave(al) ==
    \E e \in PointerEvents("pointerleave", al, UpButtons) :
        /\ drawingPointer
        /\ \E r \in {pointerleave(pointer, e)} : Deliver(e, r)

\* svg.draw(tool): the PointerTool is created (and its raw listeners attached)
\* by the first call.
Draw(tools) ==
    \E tool \in tools \cup {"false"} :
    \E r \in {draw([drawingPointer |-> drawingPointer, raw |-> raw,
                    drawingTool |-> drawingTool, listeners |-> listeners,
                    threw |-> FALSE], tool)} :
        /\ drawingPointer' = r.drawingPointer
        /\ raw' = r.raw
        /\ drawingTool' = r.drawingTool
        /\ listeners' = r.listeners
        /\ pointer' = IF drawingPointer THEN pointer ELSE reset
        /\ last' = DrawCall(tool)
        /\ out' = <<>>
        /\ calls' = <<>>
        /\ threw' = r.threw
        /\ hitTest' = "none"
        /\ removed' = <<>>
        /\ before' = pointer.state
        /\ UNCHANGED <<children, d, path>>

----------------------------------------------------------------------------
\* The monitors.  Each reads the step just taken (last' is its call or event)
\* and the state before it; none is read by the program.

IsValidMask(e) == BitAnd(ButtonsOr1(e), VALID_BUTTONS) # 0
IsPointer(e) == e.type \in {"pointerdown", "pointermove", "pointerup", "pointerleave"}
Ended == last.type \in {"pointerup", "pointerleave"} /\ last.isPrimary
NoStroke == [pts |-> <<>>, base |-> <<>>]
NoAlign == [x |-> <<0, 1>>, y |-> <<0, 1>>, width |-> <<0, 1>>, height |-> <<0, 1>>,
            result |-> <<>>]
NoDraw == [tool |-> "none", from |-> "null", state |-> NONE]

\* veto: "valid" / "invalid" once a non-primary pointerdown (with a mask that
\* is / is not among the valid buttons) has directly followed a primary
\* pointerdown, until the next primary pointerdown.
VetoMon ==
    veto' = IF last'.type # "pointerdown" THEN veto
            ELSE IF last'.isPrimary THEN "none"
            ELSE IF last.type = "pointerdown" /\ last.isPrimary
                 THEN (IF IsValidMask(last') THEN "valid" ELSE "invalid")
                 ELSE veto

\* lastDraw: the latest svg.draw call.
DrawMon ==
    lastDraw' = IF last'.type = "draw"
                THEN [tool |-> last'.tool, from |-> Attached(listeners),
                      state |-> pointer.state]
                ELSE lastDraw

\* stroke: the client points of a primary-button gesture that began, with the
\* PathDrawer attached and no path open, at a primary pointerdown, up to its
\* pointerup or pointerleave; dropped by a veto, a svg.draw call or the step
\* after its end.
StrokeMon ==
    stroke' =
        CASE last'.type = "draw" -> NoStroke
          [] last'.type = "pointerdown" /\ IsValidMask(last') ->
                IF last'.isPrimary /\ Attached(listeners) = "pen" /\ path = "null"
                   /\ BitAnd(ButtonsOr1(last'), VALID_BUTTONS) = 1
                THEN [pts |-> <<<<last'.clientX, last'.clientY>>>>, base |-> children]
                ELSE NoStroke
          [] Ended -> NoStroke
          [] last'.type = "pointermove" /\ last'.isPrimary /\ stroke.pts # <<>> ->
                [stroke EXCEPT !.pts = Append(@, <<last'.clientX, last'.clientY>>)]
          [] OTHER -> stroke

\* down: the buttons value and the point of the latest primary pointerdown
\* that was unreported (0) or had one of the bits 1 and 32 set.
NoDown == [buttons |-> -1, point |-> <<>>]
DownMon ==
    down' = IF /\ last'.type = "pointerdown"
               /\ last'.isPrimary
               /\ (last'.buttons = 0 \/ BitAnd(last'.buttons, 33) # 0)
            THEN [buttons |-> last'.buttons, point |-> <<last'.clientX, last'.clientY>>]
            ELSE down

\* The state of a surface before the first svg.draw call, the first pointer
\* event and the first application of the aligner made for it.
Fresh ==
    /\ aligner = surface.preserveAspectRatio
    /\ built = surface
    /\ aligned = NoAlign
    /\ isDrawing = FALSE
    /\ timeout = 0
    /\ timers = <<>>
    /\ timerId = 0
    /\ begun = FALSE
    /\ vetoed = {}
    /\ released = {}
    /\ attrsMap = NoAttrs
    /\ pointer = reset
    /\ drawingPointer = FALSE
    /\ drawingTool = "null"
    /\ listeners = <<>>
    /\ raw = <<>>
    /\ children = <<>>
    /\ d = <<>>
    /\ path = "null"
    /\ last = NoCall
    /\ out = <<>>
    /\ calls = <<>>
    /\ threw = FALSE
    /\ hitTest = "none"
    /\ removed = <<>>
    /\ before = NONE
    /\ veto = "none"
    /\ lastDraw = NoDraw
    /\ stroke = NoStroke
    /\ down = NoDown

Init ==
    /\ surface = [viewBox |-> ViewBox, preserveAspectRatio |-> Fit]
    /\ Fresh

\* The pointer protocol: every button mask, primary and non-primary contacts,
\* with the ElementRemover as the tool, watched by the veto monitor.
All == [buttons |-> Buttons, primary |-> BOOLEAN, points |-> Points]

Next ==
    \/ PointerDown(All) /\ VetoMon /\ DownMon /\ UNCHANGED <<surface, aligner, built, debounceVars, aligned, lastDraw, stroke>>
    \/ PointerMove(All) /\ VetoMon /\ DownMon /\ UNCHANGED <<surface, aligner, built, debounceVars, aligned, lastDraw, stroke>>
    \/ PointerUp(All) /\ VetoMon /\ DownMon /\ UNCHANGED <<surface, aligner, built, debounceVars, aligned, lastDraw, stroke>>
    \/ PointerLeave(All) /\ VetoMon /\ DownMon /\ UNCHANGED <<surface, aligner, built, debounceVars, aligned, lastDraw, stroke>>
    \/ Draw({"eraser"}) /\ VetoMon /\ DownMon /\ UNCHANGED <<surface, aligner, built, debounceVars, aligned, lastDraw, stroke>>

Spec == Init /\ [][Next]_vars

\* The pointer protocol when the host delivers the end of every contact: the
\* pointerup or pointerleave of the primary contact is not postponed for ever.
Primary == [buttons |-> Buttons, primary |-> {TRUE}, points |-> Points]

Release ==
    /\ PointerUp(Primary) \/ PointerLeave(Primary)
    /\ VetoMon /\ DownMon
    /\ UNCHANGED <<surface, aligner, built, debounceVars, aligned, lastDraw, stroke>>

SpecFair == Spec /\ WF_vars(Release)

\* The listener registry: both tools, driven by pen-tip gestures of the primary
\* contact at one point, watched by the lastDraw monitor.
Tip == [buttons |-> {0}, primary |-> {TRUE}, points |-> {<<1, 2>>}]

NextSwap ==
    \/ PointerDown(Tip) /\ DrawMon /\ UNCHANGED <<surface, aligner, built, debounceVars, aligned, veto, stroke, down>>
    \/ PointerMove(Tip) /\ DrawMon /\ UNCHANGED <<surface, aligner, built, debounceVars, aligned, veto, stroke, down>>
    \/ PointerUp(Tip) /\ DrawMon /\ UNCHANGED <<surface, aligner, built, debounceVars, aligned, veto, stroke, down>>
    \/ PointerLeave(Tip) /\ DrawMon /\ UNCHANGED <<surface, aligner, built, debounceVars, aligned, veto, stroke, down>>
    \/ Draw(Tools) /\ DrawMon /\ UNCHANGED <<surface, aligner, built, debounceVars, aligned, veto, stroke, down>>

SpecSwap == Init /\ [][NextSwap]_vars

\* The tools: both tools, pen-tip and pen-eraser gestures, watched by the
\* stroke monitor.
Pen == [buttons |-> {0, 32}, primary |-> BOOLEAN, points |-> Points]

NextTools ==
    \/ PointerDown(Pen) /\ StrokeMon /\ UNCHANGED <<surface, aligner, built, debounceVars, aligned, veto, lastDraw, down>>
    \/ PointerMove(Pen) /\ StrokeMon /\ UNCHANGED <<surface, aligner, built, debounceVars, aligned, veto, lastDraw, down>>
    \/ PointerUp(Pen) /\ StrokeMon /\ UNCHANGED <<surface, aligner, built, debounceVars, aligned, veto, lastDraw, down>>
    \/ PointerLeave(Pen) /\ StrokeMon /\ UNCHANGED <<surface, aligner, built, debounceVars, aligned, veto, lastDraw, down>>
    \/ Draw(Tools) /\ StrokeMon /\ UNCHANGED <<surface, aligner, built, debounceVars, aligned, veto, lastDraw, down>>

SpecTools == Init /\ [][NextTools]_vars

\* The aligner: a surface of any of the viewBoxes and preserveAspectRatio
\* values, and the function alignXYFn returns for it applied to a point and a
\* viewport size.  The function is pure, so one application in a behaviour
\* reaches every value of aligned.
Surfaces ==
    {[viewBox |-> [x |-> bx, y |-> by, width |-> bw, height |-> bh],
      preserveAspectRatio |-> [align |-> a, meetOrSlice |-> m]] :
        bx \in BoxOrigins, by \in BoxOrigins, bw \in BoxSizes, bh \in BoxSizes,
        a \in Aligns, m \in MeetOrSlices}

InitAlign ==
    /\ surface \in Surfaces
    /\ Fresh

\* const align = SVG.DrawingTool.alignXYFn(svg.node); align(x, y, width, height)
\* Faulty variant of the application: the viewBox is the one the surface had
\* when alignXYFn was called.
Apply_Snapshot(coords, sizes) ==
    \E x \in coords, y \in coords, width \in sizes, height \in sizes :
        /\ aligned' = [x |-> x, y |-> y, width |-> width, height |-> height,
                       result |-> alignXYFn(built.viewBox, aligner, x, y, width, height)]
        /\ UNCHANGED <<surface, aligner, built, debounceVars, drawingVars>>

Apply(coords, sizes) ==
    \E x \in coords, y \in coords, width \in sizes, height \in sizes :
        /\ aligned' = [x |-> x, y |-> y, width |-> width, height |-> height,
                       result |-> alignXYFn(surface.viewBox, aligner, x, y, width, height)]
        /\ UNCHANGED <<surface, aligner, built, debounceVars, drawingVars>>

Align == Apply(Coords, ViewportSizes)

NextAlign == aligned = NoAlign /\ Align

SpecAlign == InitAlign /\ [][NextAlign]_vars

\* The aligner and its surface over time: the viewBox and preserveAspectRatio
\* attributes of the node are set, alignXYFn(svg.node) is called again, and the
\* function it returned last is applied.  box = node.viewBox.baseVal is the
\* live rectangle of the node, which follows the attribute; the switches on
\* fit.align and fit.meetOrSlice were evaluated when alignXYFn was called.
LiveBoxes == {ViewBox, [x |-> 2, y |-> 0, width |-> 3, height |-> 4]}
LiveFits == {Fit, [align |-> "none", meetOrSlice |-> "meet"],
             [align |-> "xMinYMin", meetOrSlice |-> "slice"]}
LiveCoords == {<<5, 1>>, <<7, 2>>}

InitLive ==
    /\ surface \in {[viewBox |-> b, preserveAspectRatio |-> f] :
                        b \in LiveBoxes, f \in LiveFits}
    /\ Fresh

\* node.setAttribute("viewBox", ...)
SetViewBox ==
    \E b \in LiveBoxes \ {surface.viewBox} :
        /\ surface' = [surface EXCEPT !.viewBox = b]
        /\ UNCHANGED <<aligner, built, aligned, debounceVars, drawingVars>>

\* node.setAttribute("preserveAspectRatio", ...)
SetPreserveAspectRatio ==
    \E f \in LiveFits \ {surface.preserveAspectRatio} :
        /\ surface' = [surface EXCEPT !.preserveAspectRatio = f]
        /\ UNCHANGED <<aligner, built, aligned, debounceVars, drawingVars>>

\* this.align = SVG.DrawingTool.alignXYFn(svgFactory.node)
AlignXYFn ==
    /\ aligner' = surface.preserveAspectRatio
    /\ built' = surface
    /\ UNCHANGED <<surface, aligned, debounceVars, drawingVars>>

NextLive ==
    \/ SetViewBox
    \/ SetPreserveAspectRatio
    \/ AlignXYFn
    \/ Apply(LiveCoords, ViewportSizes)

SpecLive == InitLive /\ [][NextLive]_vars

\* The debounced dispatchers: pointer events of the contacts and the expiry of
\* the debounce timers, which run in the order they were set (they all have
\* the same delay).
Touch == [buttons |-> {0, 1}, primary |-> BOOLEAN, points |-> Points]

Dispatchers ==
    [isDrawing |-> isDrawing, timeout |-> timeout, timers |-> timers, timerId |-> timerId]

\* A step of the dispatchers on the event or timer e, with r what the handler gives.
Debounced(e, r) ==
    /\ r.state.timerId <= MaxTimers
    /\ isDrawing' = r.state.isDrawing
    /\ timeout' = r.state.timeout
    /\ timers' = r.state.timers
    /\ timerId' = r.state.timerId
    /\ out' = r.events
    /\ last' = e
    /\ UNCHANGED <<surface, aligner, built, aligned, pointer, drawingPointer, drawingTool,
                   listeners, raw, children, d, path, calls, threw, hitTest, removed,
                   before, veto, lastDraw, stroke, down, attrsMap>>

DebouncedDown(al) ==
    \E e \in PointerEvents("pointerdown", al, al.buttons) :
        \E r \in {dispatchersPointerdown(Dispatchers, e)} : Debounced(e, r)

DebouncedMove(al) ==
    \E e \in PointerEvents("pointermove", al, MoveButtons) :
        \E r \in {dispatchersPointermove(Dispatchers, e)} : Debounced(e, r)

DebouncedUp(al) ==
    \E e \in PointerEvents("pointerup", al, UpButtons) :
        \E r \in {dispatchersPointerup(Dispatchers, e)} : Debounced(e, r)

DebouncedLeave(al) ==
    \E e \in PointerEvents("pointerleave", al, UpButtons) :
        \E r \in {dispatchersPointerleave(Dispatchers, e)} : Debounced(e, r)

\* The call of the function given to setTimeout, as a step.
TimerCall(t) ==
    [type |-> "timeout", isPrimary |-> TRUE, buttons |-> t.buttons,
     clientX |-> t.point[1], clientY |-> t.point[2], tool |-> "null"]

TimerExpires ==
    /\ timers # <<>>
    /\ \E r \in {dispatchersTimeout(Dispatchers)} : Debounced(TimerCall(Head(timers)), r)

TimerIds(ts) == {ts[i].id : i \in 1..Len(ts)}
Names(evs) == {evs[i].name : i \in 1..Len(evs)}

\* begun: a START was dispatched and no END since.
BegunMon ==
    begun' = IF END \in Names(out') THEN FALSE
             ELSE IF START \in Names(out') THEN TRUE
             ELSE begun

\* vetoed: the pending timers whose pointerdown a non-primary pointerdown
\* followed.
VetoedMon ==
    vetoed' = (IF last'.type = "pointerdown" /\ ~last'.isPrimary
               THEN vetoed \cup TimerIds(timers)
               ELSE vetoed) \cap TimerIds(timers')

\* released: the pending timers whose contact a primary pointerup or
\* pointerleave ended.
ReleasedMon ==
    released' = (IF last'.type \in {"pointerup", "pointerleave"} /\ last'.isPrimary
                 THEN released \cup TimerIds(timers)
                 ELSE released) \cap TimerIds(timers')

NextDebounce ==
    \/ DebouncedDown(Touch) /\ BegunMon /\ VetoedMon /\ ReleasedMon
    \/ DebouncedMove(Touch) /\ BegunMon /\ VetoedMon /\ ReleasedMon
    \/ DebouncedUp(Touch) /\ BegunMon /\ VetoedMon /\ ReleasedMon
    \/ DebouncedLeave(Touch) /\ BegunMon /\ VetoedMon /\ ReleasedMon
    \/ TimerExpires /\ BegunMon /\ VetoedMon /\ ReleasedMon

SpecDebounce == Init /\ [][NextDebounce]_vars

----------------------------------------------------------------------------
\* The debounced PointerTool that dispatches START (src/unnamed/part_004): its
\* events, its handlers and its steps.  s is its state [pointer, timeout,
\* timers, timerId]; a handler gives the state after it and the CustomEvents
\* it dispatches.

\* eventDetail(node, [x, y], {buttons, point}); node is the surface.
eventDetail(point, p) ==
    [buttons |-> p.buttons, init |-> p.point, point |-> point, rect |-> Rect]

clientEvent(name, e, p) ==
    [name |-> name, detail |-> eventDetail(<<e.clientX, e.clientY>>, p)]

\* The START CustomEvent is made at the initial point.
startEvent(e, p) == [name |-> START, detail |-> eventDetail(p.point, p)]

toolPointerdown(s, e) ==
    LET buttons == BitAnd(ButtonsOr1(e), VALID_BUTTONS)
    IN  IF buttons = 0 THEN [state |-> s, events |-> <<>>]
        ELSE IF e.isPrimary
        THEN [state |-> [s EXCEPT !.timers = setTimeout(clearTimeout(s.timers, s.timeout),
                                                       s.timerId + 1, buttons,
                                                       <<e.clientX, e.clientY>>),
                                  !.timeout = s.timerId + 1,
                                  !.timerId = s.timerId + 1],
              events |-> <<>>]
        ELSE [state |-> [s EXCEPT !.timeout = 0, !.pointer = reset], events |-> <<>>]

\* The function given to setTimeout, run for the oldest pending timer.
toolTimeout(s) ==
    LET t == Head(s.timers)
    IN  [state |-> [s EXCEPT !.timers = Tail(@), !.timeout = 0,
                             !.pointer = IF s.timeout # 0
                                         THEN init(t.point[1], t.point[2], t.buttons)
                                         ELSE @],
         events |-> <<>>]

\* case INIT falls through to case MOVING.
toolPointermove(s, e) ==
    IF e.isPrimary /\ s.pointer.state = INIT
    THEN [state |-> [s EXCEPT !.pointer = moving(@)],
          events |-> <<startEvent(e, s.pointer), clientEvent(DRAW, e, moving(s.pointer))>>]
    ELSE IF e.isPrimary /\ s.pointer.state = MOVING
    THEN [state |-> s, events |-> <<clientEvent(DRAW, e, s.pointer)>>]
    ELSE [state |-> s, events |-> <<>>]

toolPointerup(s, e) ==
    IF e.isPrimary /\ s.pointer.state = INIT
    THEN [state |-> [s EXCEPT !.pointer = reset],
          events |-> <<startEvent(e, s.pointer), clientEvent(END, e, s.pointer)>>]
    ELSE IF e.isPrimary /\ s.pointer.state = MOVING
    THEN [state |-> [s EXCEPT !.pointer = reset],
          events |-> <<clientEvent(END, e, s.pointer)>>]
    ELSE [state |-> s, events |-> <<>>]

toolPointerleave(s, e) == toolPointerup(s, e)

Tool == [pointer |-> pointer, timeout |-> timeout, timers |-> timers, timerId |-> timerId]

\* A step of the PointerTool on the event or timer e, with r what the handler gives.
ToolStep(e, r) ==
    /\ r.state.timerId <= MaxTimers
    /\ pointer' = r.state.pointer
    /\ timeout' = r.state.timeout
    /\ timers' = r.state.timers
    /\ timerId' = r.state.timerId
    /\ out' = r.events
    /\ last' = e
    /\ before' = pointer.state
    /\ UNCHANGED <<surface, aligner, built, aligned, isDrawing, drawingPointer, drawingTool,
                   listeners, raw, children, d, path, calls, threw, hitTest, removed,
                   veto, lastDraw, stroke, down, attrsMap>>

ToolDown(al) ==
    \E e \in PointerEvents("pointerdown", al, al.buttons) :
        \E r \in {toolPointerdown(Tool, e)} : ToolStep(e, r)

ToolMove(al) ==
    \E e \in PointerEvents("pointermove", al, MoveButtons) :
        \E r \in {toolPointermove(Tool, e)} : ToolStep(e, r)

ToolUp(al) ==
    \E e \in PointerEvents("pointerup", al, UpButtons) :
        \E r \in {toolPointerup(Tool, e)} : ToolStep(e, r)

ToolLeave(al) ==
    \E e \in PointerEvents("pointerleave", al, UpButtons) :
        \E r \in {toolPointerleave(Tool, e)} : ToolStep(e, r)

ToolTimerExpires ==
    /\ timers # <<>>
    /\ \E r \in {toolTimeout(Tool)} : ToolStep(TimerCall(Head(timers)), r)

\* The debounced PointerTool with contacts of every button mask {0, 1, 2}.
Contacts == [buttons |-> {0, 1, 2}, primary |-> BOOLEAN, points |-> Points]

NextStart ==
    \/ ToolDown(Contacts) /\ BegunMon /\ VetoedMon /\ ReleasedMon
    \/ ToolMove(Contacts) /\ BegunMon /\ VetoedMon /\ ReleasedMon
    \/ ToolUp(Contacts) /\ BegunMon /\ VetoedMon /\ ReleasedMon
    \/ ToolLeave(Contacts) /\ BegunMon /\ VetoedMon /\ ReleasedMon
    \/ ToolTimerExpires /\ BegunMon /\ VetoedMon /\ ReleasedMon

SpecStart == Init /\ [][NextStart]_vars

----------------------------------------------------------------------------
\* The application (src/docs/scripts/main.js): the node the DrawingApp is
\* made for, with its viewBox attribute, the size of its content (getBBox)
\* and its rendered size (getBoundingClientRect), and the DrawingAttributes.

BoxAttrs ==
    {<<>>} \cup {viewBoxAttr(x, y, w, h) : x \in {0, -3}, y \in {12},
                                           w \in {-1, 0, 4}, h \in {-1, 0, 4}}
Sizes == {<<0, 0>>, <<0, 6>>, <<5, 6>>}
Nodes ==
    [viewBox : BoxAttrs, preserveAspectRatio : {Fit}, bBox : Sizes, rect : Sizes]
Items == {-1, 0, 5, 6, 7}

ValidateCall == [NoCall EXCEPT !.type = "validateViewBox"]
SizeCall(name, item) == [NoCall EXCEPT !.type = "setSize", !.tool = name, !.buttons = item]

InitApp ==
    /\ surface \in Nodes
    /\ Fresh

\* new DrawingApp(node): DrawingApp.validateViewBox(node).  built keeps the
\* node as it was before the call.
ValidateViewBox ==
    /\ surface' = validateViewBox(surface)
    /\ built' = surface
    /\ last' = ValidateCall
    /\ UNCHANGED <<aligner, aligned, isDrawing, timeout, timers, timerId, begun, vetoed,
                   released, attrsMap, pointer, drawingPointer, drawingTool, listeners, raw,
                   children, d, path, out, calls, threw, hitTest, removed, before, veto,
                   lastDraw, stroke, down>>

\* widthFn: state.setSize(attr, value).
SetSize ==
    \E name \in AttrNames, item \in Items :
        /\ attrsMap' = setSize(attrsMap, name, item)
        /\ last' = SizeCall(name, item)
        /\ UNCHANGED <<surface, built, aligner, aligned, isDrawing, timeout, timers, timerId,
                       begun, vetoed, released, pointer, drawingPointer, drawingTool,
                       listeners, raw, children, d, path, out, calls, threw, hitTest,
                       removed, before, veto, lastDraw, stroke, down>>

NextApp ==
    \/ ValidateViewBox
    \/ SetSize

SpecApp == InitApp /\ [][NextApp]_vars

----------------------------------------------------------------------------
\* SVG.Drawing.listeners and SVG.PathTool (src/docs/scripts/drawing.js), on a
\* world w = [children, d, path, calls, threw, hit, removed] as above.

ERASER_MASK == 32

\* removeFromPoint: childFromPoint(point, node)?.remove(), with hit =
\* document.elementFromPoint(...point).  A null hit makes el.parentNode throw.
removeFromPoint(w, hit) ==
    LET w0 == [w EXCEPT !.hit = hit]
    IN  IF hit = "null" THEN [w0 EXCEPT !.threw = TRUE]
        ELSE IF hit # "root" /\ hit \in Range(w.children) THEN remove(w0, hit)
        ELSE w0

\* PathTool[START]: this.path = this.svg.path("M x y l 0 0").attr(this.attr)
PathToolStart(w, detail) == drawingStart(w, getPosition(detail.point, Rect))

\* PathTool[DRAW]: this.path.array() throws a TypeError when path is null.
PathToolDraw(w, detail) ==
    IF w.path = "null" THEN [w EXCEPT !.threw = TRUE]
    ELSE LET pos == getPosition(detail.point, Rect)
         IN  [w EXCEPT !.d[w.path] = Append(@, <<"L", pos[1], pos[2]>>)]

\* PathTool[END]
PathToolEnd(w, detail) == [w EXCEPT !.path = "null"]

\* The listener that listeners(tool) makes for a name, for the PathTool.
PathListener(name, w, detail, hit) ==
    IF BitAnd(detail.buttons, ERASER_MASK) # 0 THEN removeFromPoint(w, hit)
    ELSE LET w0 == [w EXCEPT !.calls = Append(@, <<"PathTool", name>>)]
         IN  CASE name = START -> PathToolStart(w0, detail)
               [] name = DRAW -> PathToolDraw(w0, detail)
               [] name = END -> PathToolEnd(w0, detail)

\* svg.drawPath() was called on the surface: a step of the dispatchers on the
\* event or timer e, with r what the handler gives; the listener of the
\* PathTool runs on the CustomEvent dispatched, if there is one.
PathStep(e, r) ==
    \E w \in {Collect(IF r.events = <<>> THEN w0
                      ELSE PathListener(r.events[1].name, w0, r.events[1].detail, hit)) :
                w0 \in {[children |-> children, d |-> d, path |-> path, calls |-> <<>>,
                         threw |-> FALSE, hit |-> "none", removed |-> <<>>]},
                hit \in (IF r.events = <<>>
                            \/ BitAnd(r.events[1].detail.buttons, ERASER_MASK) = 0
                         THEN {"root"} ELSE Hits(children))} :
        /\ r.state.timerId <= MaxTimers
        /\ TotalCmds(w) <= MaxCmds
        /\ isDrawing' = r.state.isDrawing
        /\ timeout' = r.state.timeout
        /\ timers' = r.state.timers
        /\ timerId' = r.state.timerId
        /\ out' = r.events
        /\ last' = e
        /\ children' = w.children
        /\ d' = w.d
        /\ path' = w.path
        /\ calls' = w.calls
        /\ threw' = w.threw
        /\ hitTest' = w.hit
        /\ removed' = w.removed
        /\ UNCHANGED <<surface, aligner, built, aligned, pointer, drawingPointer, drawingTool,
                       listeners, raw, before, veto, lastDraw, stroke, down, vetoed,
                       released, attrsMap>>

\* A stylus with an eraser button: every event has the eraser bit set or not.
Stylus == [buttons |-> {0, 32}, primary |-> BOOLEAN, points |-> {<<1, 2>>}]
StylusButtons == {1, 32}

PathDown ==
    \E e \in PointerEvents("pointerdown", Stylus, Stylus.buttons) :
        \E r \in {dispatchersPointerdown(Dispatchers, e)} : PathStep(e, r)

PathMove ==
    \E e \in PointerEvents("pointermove", Stylus, StylusButtons) :
        \E r \in {dispatchersPointermove(Dispatchers, e)} : PathStep(e, r)

PathUp ==
    \E e \in PointerEvents("pointerup", Stylus, Stylus.buttons) :
        \E r \in {dispatchersPointerup(Dispatchers, e)} : PathStep(e, r)

PathLeave ==
    \E e \in PointerEvents("pointerleave", Stylus, Stylus.buttons) :
        \E r \in {dispatchersPointerleave(Dispatchers, e)} : PathStep(e, r)

PathTimer ==
    /\ timers # <<>>
    /\ \E r \in {dispatchersTimeout(Dispatchers)} : PathStep(TimerCall(Head(timers)), r)

NextPath ==
    \/ PathDown /\ BegunMon
    \/ PathMove /\ BegunMon
    \/ PathUp /\ BegunMon
    \/ PathLeave /\ BegunMon
    \/ PathTimer /\ BegunMon

SpecPath == Init /\ [][NextPath]_vars

----------------------------------------------------------------------------
\* The claims.

UpOrLeave(e) == e.type \in {"pointerup", "pointerleave"}
ClientPoint(e) == <<e.clientX, e.clientY>>

\* The CustomEvent of a name a raw event e gives with the PointerState p.
Semantic(name, e, p) ==
    [name |-> name,
     detail |-> [init |-> p.point,
                 isPrimaryButton |-> BitAnd(p.buttons, 1),
                 isEraserButton |-> BitAnd(p.buttons, 32),
                 point |-> ClientPoint(e),
                 rect |-> Rect]]

C2_SwapAtomic ==
    (lastDraw.tool \in Tools /\ lastDraw.from \in Tools /\ IsPointer(last)) =>
        calls = [i \in 1..Len(out) |-> <<lastDraw.tool, out[i].name>>]

C2_Witness ==
    /\ lastDraw.tool = "eraser"
    /\ lastDraw.from = "pen"
    /\ lastDraw.state = MOVING
    /\ IsPointer(last)
    /\ calls = <<<<"eraser", DRAW>>>>

\* The path data a PathDrawer gives a gesture through the client points pts.
PathOf(pts) ==
    LET p0 == getPosition(pts[1], Rect)
    IN  <<<<"M", p0[1], p0[2]>>, <<"l", Num(0), Num(0)>>>> \o
        [i \in 1..(Len(pts) - 1) |->
            LET q == getPosition(pts[i + 1], Rect) IN <<"L", q[1], q[2]>>]

\* C3: a primary-button primary pointerdown with the PathDrawer attached and no
\* path open, followed by the pointerup with no pointermove of that contact in
\* between, adds exactly one path to the surface, whose data is M x y l 0 0 at
\* the aligned point of the pointerup, and leaves PathDrawer.path null.
C3_Tap ==
    (last.type = "pointerup" /\ last.isPrimary /\ Len(stroke.pts) = 1) =>
        /\ path = "null"
        /\ Len(children) = Len(stroke.base) + 1
        /\ SubSeq(children, 1, Len(stroke.base)) = stroke.base
        /\ children[Len(children)] \notin Range(stroke.base)
        /\ d[children[Len(children)]] = PathOf(<<ClientPoint(last)>>)
        /\ Len(d[children[Len(children)]]) = 2

C3_Witness ==
    /\ last.type = "pointerup"
    /\ last.isPrimary
    /\ Len(stroke.pts) = 1
    /\ before = INIT
    /\ calls = <<<<"pen", END>>>>
    /\ ClientPoint(last) # stroke.pts[1]

\* C4: a primary-button gesture pointerdown(p0), pointermove(p1..pn), pointerup
\* (n >= 1) with the PathDrawer attached and no path open at the pointerdown
\* adds exactly one path, with the commands M align(p0), l 0 0, L align(p1),
\* ..., L align(pn): it is the open path after each pointermove, and no path
\* is open after the pointerup.
C4_Stroke ==
    (Len(stroke.pts) >= 2 /\ last.isPrimary
     /\ last.type \in {"pointermove", "pointerup"}) =>
        /\ Len(children) = Len(stroke.base) + 1
        /\ SubSeq(children, 1, Len(stroke.base)) = stroke.base
        /\ children[Len(children)] \notin Range(stroke.base)
        /\ d[children[Len(children)]] = PathOf(stroke.pts)
        /\ path = IF last.type = "pointermove" THEN children[Len(children)] ELSE "null"

C4_Witness ==
    /\ Len(stroke.pts) = 3
    /\ stroke.pts[1] # stroke.pts[2]
    /\ last.isPrimary
    /\ last.type = "pointerup"
    /\ calls = <<<<"pen", END>>>>
    /\ path = "null"

\* C5: a primary pointerdown whose button mask intersects {1, 32} leaves the
\* state INIT, with the event's (clientX, clientY) as the initial point and
\* the mask restricted to those two bits, from every prior state.
C5_ContactDown ==
    (last.type = "pointerdown" /\ last.isPrimary
     /\ BitAnd(last.buttons, 33) # 0) =>
        pointer = [buttons |-> BitAnd(last.buttons, 33),
                   point |-> ClientPoint(last),
                   state |-> INIT]

C5_Witness ==
    /\ last.type = "pointerdown"
    /\ last.isPrimary
    /\ last.buttons = 35
    /\ before = MOVING
    /\ pointer.state = INIT

C7_ContactMove ==
    [][(last'.type = "pointermove" /\ last'.isPrimary
        /\ pointer.state \in {INIT, MOVING}) =>
            /\ pointer' = [pointer EXCEPT !.state = MOVING]
            /\ out' = <<Semantic(DRAW, last', pointer)>>]_vars

C7_Witness ==
    /\ last.type = "pointermove"
    /\ last.isPrimary
    /\ before = INIT
    /\ pointer.state = MOVING
    /\ Len(out) = 1
    /\ out[1].detail.init # out[1].detail.point

\* C8: a pointermove received in state NONE, and a non-primary pointermove in
\* any state, dispatches nothing and leaves the state, point and mask as they
\* were.
C8_MoveIgnored ==
    [][(last'.type = "pointermove"
        /\ (pointer.state = NONE \/ ~last'.isPrimary)) =>
            /\ out' = <<>>
            /\ calls' = <<>>
            /\ pointer' = pointer]_vars

C8_Witness ==
    /\ last.type = "pointermove"
    /\ ~last.isPrimary
    /\ before = MOVING
    /\ pointer.state = MOVING
    /\ out = <<>>

\* C9 as claimed: every pointerup or pointerleave received in state INIT or
\* MOVING dispatches exactly one END and resets the state to NONE.
C9_AsClaimed ==
    [][(UpOrLeave(last') /\ pointer.state \in {INIT, MOVING}) =>
            /\ out' = <<Semantic(END, last', pointer)>>
            /\ pointer' = [buttons |-> 0, point |-> <<>>, state |-> NONE]]_vars

\* C9, amended: pointerup and pointerleave are handled identically: each one of
\* the primary contact received in state INIT or MOVING dispatches exactly
\* one END carrying the recorded initial point, the event's point and the
\* recorded role flags, and resets the state to NONE; each one that is not of
\* the primary contact or is received in state NONE dispatches nothing and
\* changes nothing.
C9_ContactUp ==
    [][UpOrLeave(last') =>
            IF pointer.state \in {INIT, MOVING} /\ last'.isPrimary
            THEN /\ out' = <<Semantic(END, last', pointer)>>
                 /\ pointer' = [buttons |-> 0, point |-> <<>>, state |-> NONE]
            ELSE /\ out' = <<>>
                 /\ pointer' = pointer]_vars

C9_Witness ==
    /\ last.type = "pointerleave"
    /\ last.isPrimary
    /\ before = MOVING
    /\ pointer.state = NONE
    /\ Len(out) = 1
    /\ out[1].name = END

C11_DefaultMask ==
    down.buttons = 0 =>
        /\ (last.type = "pointerdown" /\ last.isPrimary /\ last.buttons = 0) =>
                pointer = [buttons |-> 1, point |-> ClientPoint(last), state |-> INIT]
        /\ \A i \in 1..Len(out) :
                /\ out[i].detail.isPrimaryButton = 1
                /\ out[i].detail.isEraserButton = 0

C11_Witness ==
    /\ down.buttons = 0
    /\ last.type = "pointerup"
    /\ before = MOVING
    /\ Len(out) = 1
    /\ out[1].name = END
    /\ out[1].detail.isPrimaryButton = 1

\* The tools that have a DRAW or END listener attached to the surface.
AttachedTools(ls) == {ls[i][2] : i \in 1..Len(ls)}
ListenersOf(tool) == <<<<DRAW, tool>>, <<END, tool>>>>

\* C12: after every svg.draw call the DRAW/END listeners of at most one tool
\* are attached to the surface, and after svg.draw(newTool) they are exactly
\* the two listeners of newTool, none of the tool attached before remaining,
\* and newTool is the tool of record.
C12_ToolSlot ==
    [][/\ Cardinality(AttachedTools(listeners')) <= 1
       /\ (last'.type = "draw" /\ last'.tool \in Tools) =>
            /\ listeners' = ListenersOf(last'.tool)
            /\ drawingTool' = last'.tool]_vars

C12_Witness ==
    /\ last.type = "draw"
    /\ lastDraw.tool = "pen"
    /\ lastDraw.from = "eraser"
    /\ lastDraw.state = INIT
    /\ listeners = ListenersOf("pen")

\* C13: from svg.draw(false) until the next svg.draw call no DRAW or END
\* listener of any tool is attached to the surface, and no tool handler is
\* invoked by the pointer events in between, whatever they dispatch.
C13_Detached ==
    lastDraw.tool = "false" =>
        /\ listeners = <<>>
        /\ calls = <<>>

C13_Witness ==
    /\ lastDraw.tool = "false"
    /\ lastDraw.from = "pen"
    /\ lastDraw.state = MOVING
    /\ last.type = "pointermove"
    /\ Len(out) = 1
    /\ calls = <<>>

\* The raw listeners of the first PointerTool made for the surface.
RawOfFirst == [i \in 1..Len(PointerToolNAMES) |-> <<PointerToolNAMES[i], 1>>]

C16_Idempotent ==
    /\ [][(last.type = "draw" /\ last'.type = "draw"
           /\ last'.tool = last.tool /\ last'.tool \in Tools) =>
                /\ listeners' = listeners
                /\ listeners' = ListenersOf(last'.tool)
                /\ raw' = raw
                /\ drawingTool' = drawingTool]_vars
    /\ []((lastDraw.tool \in Tools /\ lastDraw.from = lastDraw.tool) =>
            /\ listeners = ListenersOf(lastDraw.tool)
            /\ Len(calls) = Len(out)
            /\ \A i \in 1..Len(out) : calls[i] = <<lastDraw.tool, out[i].name>>)

C16_Witness ==
    /\ lastDraw.tool = "pen"
    /\ lastDraw.from = "pen"
    /\ last.type = "pointerup"
    /\ Len(out) = 1
    /\ calls = <<<<"pen", END>>>>

\* C17 as claimed: with the PathDrawer attached, a DRAW or END whose detail
\* has the eraser flag set runs the PathDrawer's handler once, which makes a
\* hit-test at the event's point, removes the child that was hit (if one was),
\* creates no path and changes the data of no path; after such an END the
\* PathDrawer has no open path.
C17_AsClaimed ==
    [][(Attached(listeners) = "pen" /\ Len(out') = 1
        /\ out'[1].detail.isEraserButton # 0) =>
            /\ calls' = <<<<"pen", out'[1].name>>>>
            /\ hitTest' # "none"
            /\ children' = Without(children, hitTest')
            /\ \A id \in DOMAIN d' : id \in DOMAIN d /\ d'[id] = d[id]
            /\ out'[1].name = END => path' = "null"]_vars

C19_AsClaimed ==
    [][hitTest' \in {"null", "root"} =>
            /\ ~threw'
            /\ removed' = <<>>
            /\ children' = children]_vars

\* The aligner of a surface with preserveAspectRatio none and viewBox
\* (0, 0, W, H) was applied to a point with width = W and height = H.
IdentityCase ==
    /\ aligned # NoAlign
    /\ surface.preserveAspectRatio.align = "none"
    /\ surface.viewBox.x = 0
    /\ surface.viewBox.y = 0
    /\ aligned.width = Num(surface.viewBox.width)
    /\ aligned.height = Num(surface.viewBox.height)

\* a is a number: rounding leaves it as it is.
Exact(a) == Fl(a) = a
RAbs(a) == <<Abs(a[1]), a[2]>>
\* r is v or differs from it by at most |v| / 2^(Precision - 1).
Near(r, v) == ~RLess(RAbs(v), RMul(RAbs(RSub(r, v)), Num(MinSig)))

-----------------------------------------------------------------------------
\* Anchors of the uniform aligners (claims C21 - C23)

LeftEdge == Num(surface.viewBox.x)
RightEdge == Num(surface.viewBox.x + surface.viewBox.width)

\* The anchor of an axis that a preserveAspectRatio align value names.
XAnchor(a) ==
    CASE a \in {"xMinYMin", "xMinYMid", "xMinYMax"} -> "min"
      [] a \in {"xMaxYMin", "xMaxYMid", "xMaxYMax"} -> "max"
      [] OTHER -> "mid"
YAnchor(a) ==
    CASE a \in {"xMinYMin", "xMidYMin", "xMaxYMin"} -> "min"
      [] a \in {"xMinYMax", "xMidYMax", "xMaxYMax"} -> "max"
      [] OTHER -> "mid"

\* The viewport coordinate of an anchor on an axis of viewport size e, and
\* the logical coordinate of the anchor on an axis of the viewBox with
\* origin o and the given size.
AnchorAt(anchor, e) ==
    CASE anchor = "min" -> <<0, 1>>
      [] anchor = "mid" -> RDiv(e, Num(2))
      [] anchor = "max" -> e
AnchorValue(anchor, o, size) ==
    CASE anchor = "min" -> Num(o)
      [] anchor = "mid" -> RAdd(Num(o), RDiv(Num(size), Num(2)))
      [] anchor = "max" -> Num(o + size)

\* The anchor's logical coordinate plus the displacement of v from the
\* anchor times the scale, without rounding.
Displaced(anchor, o, size, scale, v, e) ==
    RAdd(AnchorValue(anchor, o, size), RMul(RSub(v, AnchorAt(anchor, e)), scale))

\* Every step of the anchor's function yields a number without rounding.
MinIsExact(o, size, scale, v, e) ==
    /\ Exact(RMul(v, scale))
    /\ Exact(RAdd(RMul(v, scale), Num(o)))
MidIsExact(o, size, scale, v, e) ==
    /\ Exact(RMul(v, scale))
    /\ Exact(RAdd(RMul(v, scale), Num(o)))
    /\ Exact(RMul(e, scale))
    /\ Exact(RSub(Num(size), RMul(e, scale)))
    /\ Exact(RAdd(RAdd(RMul(v, scale), Num(o)),
                  RDiv(RSub(Num(size), RMul(e, scale)), Num(2))))
MaxIsExact(o, size, scale, v, e) ==
    /\ Exact(RSub(v, e))
    /\ Exact(RMul(RSub(v, e), scale))
    /\ Exact(RAdd(RMul(RSub(v, e), scale), Num(o)))
    /\ Exact(RAdd(RAdd(RMul(RSub(v, e), scale), Num(o)), Num(size)))
AnchorIsExact(anchor, o, size, scale, v, e) ==
    CASE anchor = "min" -> MinIsExact(o, size, scale, v, e)
      [] anchor = "mid" -> MidIsExact(o, size, scale, v, e)
      [] anchor = "max" -> MaxIsExact(o, size, scale, v, e)

\* The magnitudes the roundings of one evaluation act on, times
\* 2^(3 - Precision): a bound of the accumulated rounding error.
AnchorSlack(o, size, scale, v, e) ==
    RDiv(RMul(RAdd(RMul(RAdd(RAbs(v), e), scale), Num(Abs(o) + size)), Num(8)),
         Num(MaxSig))

\* An aligner with "meet" and xMidYMid on a square viewBox was applied to a
\* viewport that is wider than tall.
MeetMidSquareWide ==
    /\ aligned # NoAlign
    /\ surface.preserveAspectRatio = [align |-> "xMidYMid", meetOrSlice |-> "meet"]
    /\ surface.viewBox.width = surface.viewBox.height
    /\ RLess(aligned.height, aligned.width)

\* The logical x of the viewport point that lies as far from the right
\* viewport edge as the aligned point lies from the left one.
MirrorX ==
    alignXYFn(surface.viewBox, surface.preserveAspectRatio,
              FSub(aligned.width, aligned.x), aligned.y,
              aligned.width, aligned.height)[1]

\* No operation of the two evaluations (at x and at width - x) rounds.
MirrorIsExact ==
    LET box == surface.viewBox
        scale == RDiv(Num(box.height), aligned.height)
    IN  /\ Exact(RDiv(Num(box.width), aligned.width))
        /\ Exact(scale)
        /\ Exact(RSub(aligned.width, aligned.x))
        /\ MidIsExact(box.x, box.width, scale, aligned.x, aligned.width)
        /\ MidIsExact(box.x, box.width, scale, RSub(aligned.width, aligned.x),
                      aligned.width)

\* The sum of the magnitudes the roundings of the two evaluations act on,
\* times 2^(4 - Precision): a bound of the accumulated rounding error.
MirrorSlack ==
    LET box == surface.viewBox
        scale == scaleUp(box, aligned.width, aligned.height)
        size == RAdd(RMul(RAdd(RAbs(aligned.x), aligned.width), scale),
                     Num(Abs(box.x) + box.width))
    IN  RDiv(RMul(size, Num(16)), Num(MaxSig))

RMax(a, b) == IF RLess(a, b) THEN b ELSE a
RMin(a, b) == IF RLess(b, a) THEN b ELSE a
XScale == FDiv(Num(surface.viewBox.width), aligned.width)
YScale == FDiv(Num(surface.viewBox.height), aligned.height)

\* The result of the latest application when both axes use the scale s.
ResultAtScale(s) ==
    <<xAlignFn(surface.viewBox, surface.preserveAspectRatio, s, aligned.x, aligned.width),
      yAlignFn(surface.viewBox, surface.preserveAspectRatio, s, aligned.y, aligned.height)>>

\* C22: with xScale = viewBox.width / width and yScale = viewBox.height /
\* height, an aligner whose anchor is not "none" uses min(xScale, yScale) for
\* both axes when meetOrSlice is "slice" and max(xScale, yScale) for both axes
\* when it is "meet" or any other value.
C22_ScaleSelection ==
    (aligned # NoAlign /\ surface.preserveAspectRatio.align # "none") =>
        aligned.result =
            ResultAtScale(IF surface.preserveAspectRatio.meetOrSlice = "slice"
                          THEN RMin(XScale, YScale)
                          ELSE RMax(XScale, YScale))

C22_Witness ==
    /\ aligned # NoAlign
    /\ surface.preserveAspectRatio = [align |-> "xMinYMin", meetOrSlice |-> "unknown"]
    /\ RLess(XScale, YScale)
    /\ aligned.x = <<5, 1>>
    /\ aligned.result = ResultAtScale(YScale)
    /\ aligned.result # ResultAtScale(XScale)

\* An aligner with an anchor (a uniform scale) was applied.
Uniform == aligned # NoAlign /\ surface.preserveAspectRatio.align # "none"
UniformScale ==
    scaleFn(surface.viewBox, surface.preserveAspectRatio, aligned.width, aligned.height)
XKind == XAnchor(surface.preserveAspectRatio.align)
YKind == YAnchor(surface.preserveAspectRatio.align)
XDisplaced ==
    Displaced(XKind, surface.viewBox.x, surface.viewBox.width, UniformScale,
              aligned.x, aligned.width)
YDisplaced ==
    Displaced(YKind, surface.viewBox.y, surface.viewBox.height, UniformScale,
              aligned.y, aligned.height)

\* The anchor properties of one axis up to rounding.
AnchoredRounded(anchor, o, size, scale, v, e, r) ==
    LET claimed == Displaced(anchor, o, size, scale, v, e)
    IN  /\ AnchorIsExact(anchor, o, size, scale, v, e) => r = claimed
        /\ ~RLess(AnchorSlack(o, size, scale, v, e), RAbs(RSub(r, claimed)))
        /\ (anchor = "min" /\ v = <<0, 1>>) => r = Num(o)
        /\ (anchor = "max" /\ v = e) => r = Num(o + size)

-----------------------------------------------------------------------------
\* Tools and the pointer state machine (claims C24, C26, C27, C29)

\* C24 as claimed: a non-primary pointerdown (of a valid button mask) that
\* resets the state from MOVING while the PathDrawer is attached and has a
\* path open leaves the PathDrawer without an open path, so that the first
\* DRAW of the next gesture opens a new path.
C24_AsClaimed ==
    [][(/\ last'.type = "pointerdown"
        /\ ~last'.isPrimary
        /\ IsValidMask(last')
        /\ pointer.state = MOVING
        /\ Attached(listeners) = "pen"
        /\ path # "null") => path' = "null"]_vars

\* The latest step was a primary pointerdown of a valid button mask.
PrimaryDown(e) == e.type = "pointerdown" /\ e.isPrimary /\ IsValidMask(e)

\* C26 as claimed: the state only takes the transitions NONE to INIT, INIT to
\* MOVING, MOVING to MOVING, INIT to NONE and MOVING to NONE, and the
\* recorded initial point is not overwritten while the state is INIT or
\* MOVING.
C26_AsClaimed ==
    [][/\ pointer' # pointer =>
            <<pointer.state, pointer'.state>> \in
                {<<NONE, INIT>>, <<INIT, MOVING>>, <<MOVING, MOVING>>,
                 <<INIT, NONE>>, <<MOVING, NONE>>}
       /\ (pointer.state # NONE /\ pointer'.state # NONE) =>
            pointer'.point = pointer.point]_vars

\* C26, amended: MOVING is entered only from INIT or MOVING, and INIT only by
\* a primary pointerdown of a valid button mask, which in every state (INIT and
\* MOVING included) records its point and mask and leaves INIT; no other step
\* changes the recorded point or mask while the state stays INIT or MOVING.
C26_Transitions ==
    [][/\ pointer.state = NONE => pointer'.state \in {NONE, INIT}
       /\ (pointer'.state = INIT /\ pointer' # pointer) => PrimaryDown(last')
       /\ PrimaryDown(last') =>
            pointer' = [buttons |-> BitAnd(ButtonsOr1(last'), VALID_BUTTONS),
                        point |-> ClientPoint(last'), state |-> INIT]
       /\ (pointer.state # NONE /\ pointer'.state # NONE /\ ~PrimaryDown(last')) =>
            /\ pointer'.point = pointer.point
            /\ pointer'.buttons = pointer.buttons]_vars

C26_Witness ==
    /\ PrimaryDown(last)
    /\ before = MOVING
    /\ pointer.state = INIT
    /\ pointer.point = ClientPoint(last)

\* C27 as claimed: after svg.draw(false) the tool of record (drawingTool) is
\* empty.
C27_AsClaimed ==
    (last.type = "draw" /\ last.tool = "false") => drawingTool = "null"

\* C27, amended: svg.draw(false) leaves the tool of record as it was (the
\* detached tool stays on record) and leaves no DRAW or END listener
\* attached, whether the tool of record was attached before the call or not.
C27_ToolKept ==
    [][(last'.type = "draw" /\ last'.tool = "false") =>
            /\ drawingTool' = drawingTool
            /\ listeners' = <<>>
            /\ ~threw']_vars

C27_Witness ==
    /\ last.type = "draw"
    /\ lastDraw.tool = "false"
    /\ lastDraw.from = "pen"
    /\ drawingTool = "pen"
    /\ listeners = <<>>

\* C29: between the operations and the event callbacks, for every tool either
\* both of its listeners (DRAW and END) are attached to the surface or
\* neither is.
C29_AllOrNothing ==
    \A tool \in Tools :
        (<<DRAW, tool>> \in Range(listeners)) <=> (<<END, tool>> \in Range(listeners))

C29_Witness ==
    /\ last.type = "draw"
    /\ lastDraw.tool = "eraser"
    /\ lastDraw.from = "pen"
    /\ <<DRAW, "eraser">> \in Range(listeners)
    /\ <<END, "eraser">> \in Range(listeners)
    /\ <<DRAW, "pen">> \notin Range(listeners)
    /\ <<END, "pen">> \notin Range(listeners)

-----------------------------------------------------------------------------
\* The aligner and later changes of the surface (claim C28)

\* The result the latest application would have on a surface with viewBox box
\* and preserveAspectRatio fit.
ResultOn(box, fit) ==
    alignXYFn(box, fit, aligned.x, aligned.y, aligned.width, aligned.height)

\* C28 as claimed: the result of an application depends only on the viewBox
\* and preserveAspectRatio values the surface had when alignXYFn was called;
\* a later change of the viewBox does not change it.
C28_AsClaimed ==
    [][aligned' # aligned =>
            aligned'.result = alignXYFn(built.viewBox, built.preserveAspectRatio,
                                        aligned'.x, aligned'.y,
                                        aligned'.width, aligned'.height)]_vars

\* C28, amended: the result of an application depends on the
\* preserveAspectRatio values the surface had when alignXYFn was called and on
\* the viewBox the surface has when the function is applied.
C28_LiveViewBox ==
    [][aligned' # aligned =>
            aligned'.result = alignXYFn(surface.viewBox, built.preserveAspectRatio,
                                        aligned'.x, aligned'.y,
                                        aligned'.width, aligned'.height)]_vars

C28_Witness ==
    /\ aligned # NoAlign
    /\ surface.viewBox # built.viewBox
    /\ surface.preserveAspectRatio # built.preserveAspectRatio
    /\ aligned.result = ResultOn(surface.viewBox, built.preserveAspectRatio)
    /\ aligned.result # ResultOn(built.viewBox, built.preserveAspectRatio)
    /\ aligned.result # ResultOn(surface.viewBox, surface.preserveAspectRatio)

-----------------------------------------------------------------------------
\* The debounced dispatchers (claims C25, C30)

\* C25 as claimed: the expiry of the debounce timer of a primary pointerdown
\* dispatches START only if no non-primary pointerdown occurred since that
\* pointerdown, whatever pointer events and timer expiries came in between.
C25_AsClaimed ==
    [][(last'.type = "timeout" /\ START \in Names(out')) =>
            Head(timers).id \notin vetoed]_vars

\* C30 as claimed: the events dispatched form the sequence (START DRAW* END)*:
\* a DRAW or an END is dispatched only after a START with no END since, and a
\* START only when every START before it was followed by an END.
C30_AsClaimed ==
    [][/\ START \in Names(out') => ~begun
       /\ (DRAW \in Names(out') \/ END \in Names(out')) => begun]_vars

\* Whether the events evs, dispatched in this order when a START without END
\* is outstanding (open) or not, continue a sequence of the form
\* (START DRAW* END)*.
RECURSIVE Protocol(_, _)
Protocol(open, evs) ==
    IF evs = <<>> THEN TRUE
    ELSE IF Head(evs).name = START THEN ~open /\ Protocol(TRUE, Tail(evs))
    ELSE IF Head(evs).name = END THEN open /\ Protocol(FALSE, Tail(evs))
    ELSE open /\ Protocol(open, Tail(evs))

\* C31 (as claimed): the events the START-dispatching PointerTool
\* (src/unnamed/part_004) dispatches form gestures of exactly one START, then
\* zero or more DRAW, then exactly one END.  Violated: a primary pointerdown
\* whose contact is gone before the debounce expires still sets INIT, the
\* START and DRAW of later moves have no END, and the timer of the next
\* pointerdown takes MOVING back to INIT, so a second START follows.
C31_AsClaimed == [][Protocol(begun, out')]_vars

\* C32: after validateViewBox the viewBox of the node has a positive width
\* and a positive height; they are those it had when both were positive,
\* and otherwise, each on its own, that of the content bounding box, else
\* the rendered size, else 300 by 150; x and y are kept (0 without a viewBox).
C32_ValidViewBox ==
    last.type = "validateViewBox" =>
        LET old == baseVal(built.viewBox)
            new == baseVal(surface.viewBox)
            pick(i, dflt) == IF built.bBox[i] # 0 THEN built.bBox[i]
                             ELSE IF built.rect[i] # 0 THEN built.rect[i] ELSE dflt
        IN  /\ new.width > 0 /\ new.height > 0
            /\ new.x = old.x /\ new.y = old.y
            /\ (old.width > 0 /\ old.height > 0 => surface = built)
            /\ (old.width <= 0 \/ old.height <= 0 =>
                    new.width = pick(1, 300) /\ new.height = pick(2, 150))

\* A viewBox of width 0 at (-3, 12) of a node without content and of
\* rendered height 6 only was validated.
C32_Witness ==
    /\ last.type = "validateViewBox"
    /\ built.viewBox = viewBoxAttr(-3, 12, 0, 4)
    /\ surface.viewBox = viewBoxAttr(-3, 12, 300, 6)

\* C33 (as claimed): after setSize(name, item) the "stroke-width" stored for
\* the name is one of the values of the widths array, for every integer item.
\* Violated: an item of at least widths.length stores undefined.
C33_AsClaimed ==
    last.type = "setSize" =>
        \E i \in DOMAIN widths : attrsMap[last.tool] = <<widths[i]>>

\* C34: every DRAW and END the PointerTool dispatches has as init the point
\* of the latest primary pointerdown of a valid mask, and the role flags of
\* the mask recorded at that pointerdown ((buttons || 1) & 33), whatever the
\* buttons value of the pointermove, pointerup or pointerleave itself is.
C34_InitAndRoles ==
    \A i \in 1..Len(out) :
        LET mask == BitAnd(IF down.buttons = 0 THEN 1 ELSE down.buttons, 33)
        IN  /\ out[i].name \in {DRAW, END}
            /\ out[i].detail.init = down.point
            /\ out[i].detail.isPrimaryButton = BitAnd(mask, 1)
            /\ out[i].detail.isEraserButton = BitAnd(mask, 32)

\* An END of a pointerup with buttons 0 of a gesture begun with buttons 32 at
\* another point: the END has the eraser role and the initial point.
C34_Witness ==
    /\ last.type = "pointerup"
    /\ last.buttons = 0
    /\ Len(out) = 1
    /\ out[1].name = END
    /\ down.buttons = 32
    /\ out[1].detail.isEraserButton = 32
    /\ out[1].detail.isPrimaryButton = 0
    /\ out[1].detail.init = down.point
    /\ out[1].detail.point # down.point

\* C35: with the end of the primary contact eventually delivered, a
\* PointerTool state INIT or MOVING leads to NONE; the primary pointerup or
\* pointerleave received in INIT or MOVING dispatches exactly one END and
\* resets the state in the same step, so no event of a later gesture comes
\* before it; and a pointermove never takes the state to NONE.
C35_GestureEnds ==
    /\ (pointer.state \in {INIT, MOVING}) ~> (pointer.state = NONE)
    /\ [][/\ (UpOrLeave(last') /\ last'.isPrimary /\ pointer.state \in {INIT, MOVING} =>
                 /\ pointer'.state = NONE
                 /\ Len(out') = 1
                 /\ out'[1].name = END
                 /\ out'[1].detail.init = pointer.point)
          /\ (last'.type = "pointermove" /\ pointer.state # NONE =>
                 pointer'.state # NONE)]_vars

\* A primary pointerleave received in MOVING has dispatched the END.
C35_Witness ==
    /\ last.type = "pointerleave"
    /\ last.isPrimary
    /\ before = MOVING
    /\ pointer.state = NONE
    /\ Len(out) = 1
    /\ out[1].name = END

-----------------------------------------------------------------------------
\* The image of the viewport rectangle (claim C36)

TopEdge == Num(surface.viewBox.y)
BottomEdge == Num(surface.viewBox.y + surface.viewBox.height)
RLeq(a, b) == ~RLess(b, a)

\* A uniform aligner with "meet" or "slice" was applied to the corner (0, 0)
\* of the viewport.
AtCorner(meetOrSlice) ==
    /\ Uniform
    /\ surface.preserveAspectRatio.meetOrSlice = meetOrSlice
    /\ aligned.x = <<0, 1>>
    /\ aligned.y = <<0, 1>>

\* The image of the opposite corner (width, height) of the viewport.
FarCorner ==
    alignXYFn(surface.viewBox, surface.preserveAspectRatio,
              aligned.width, aligned.height, aligned.width, aligned.height)

\* No operation of the evaluations at the two corners rounds.
CornersAreExact ==
    LET box == surface.viewBox
        scale == UniformScale
    IN  /\ Exact(RDiv(Num(box.width), aligned.width))
        /\ Exact(RDiv(Num(box.height), aligned.height))
        /\ AnchorIsExact(XKind, box.x, box.width, scale, aligned.x, aligned.width)
        /\ AnchorIsExact(XKind, box.x, box.width, scale, aligned.width, aligned.width)
        /\ AnchorIsExact(YKind, box.y, box.height, scale, aligned.y, aligned.height)
        /\ AnchorIsExact(YKind, box.y, box.height, scale, aligned.height, aligned.height)

\* Bounds of the accumulated rounding error of the two evaluations on an axis.
XSlack ==
    AnchorSlack(surface.viewBox.x, surface.viewBox.width, UniformScale,
                aligned.width, aligned.width)
YSlack ==
    AnchorSlack(surface.viewBox.y, surface.viewBox.height, UniformScale,
                aligned.height, aligned.height)

\* [a1, a2] contains [b1, b2], when each end may be off by slack.
Contains(a1, a2, b1, b2, slack) ==
    /\ RLeq(a1, RAdd(b1, slack))
    /\ RLeq(b2, RAdd(a2, slack))

C37_AsClaimed ==
    [][(last'.type = "timeout" /\ Head(timers).id \in released) =>
           /\ START \notin Names(out')
           /\ pointer'.state # INIT]_vars

\* C38 (as claimed): whenever the listener of the PathTool invokes the DRAW
\* handler, the START handler has run in the same gesture and path is not
\* null, whatever the buttons of the events are.  Violated: the eraser bit is
\* tested on each event, so a START with the bit set is not passed to the
\* tool and a later DRAW with the bit clear finds path null.
C38_AsClaimed ==
    [][path = "null" => <<"PathTool", DRAW>> \notin Range(calls')]_vars

\* C39 (as claimed): a PathDrawer whose listeners were removed in the middle
\* of a gesture and that is attached again by svg.draw with the same tool
\* object starts fresh: the first DRAW it receives after that call finds no
\* path open (and so opens a new one at the initial point).  Violated: only
\* END sets path to null, and the END of the interrupted gesture did not
\* reach the PathDrawer.
C39_AsClaimed ==
    [][(/\ last.type = "draw"
        /\ last.tool = "pen"
        /\ lastDraw.from # "pen"
        /\ <<"pen", DRAW>> \in Range(calls')) => path = "null"]_vars

\* C40: the PointerState is NONE exactly when buttons is 0 and point is
\* empty; in INIT and MOVING buttons is 1, 32 or 33 and point is the client
\* point of the latest primary pointerdown of a valid mask.
C40_PointerStateConsistent ==
    /\ pointer.state \in {NONE, INIT, MOVING}
    /\ (pointer.state = NONE) <=> (pointer.buttons = 0 /\ pointer.point = <<>>)
    /\ pointer.state \in {INIT, MOVING} =>
          /\ pointer.buttons \in {1, 32, 33}
          /\ pointer.point = down.point
          /\ Len(pointer.point) = 2

\* A gesture begun with buttons 35 at (3, 4) is in MOVING with the mask 33.
C40_Witness ==
    /\ pointer = [buttons |-> 33, point |-> <<3, 4>>, state |-> MOVING]
    /\ last.type = "pointermove"
    /\ down = [buttons |-> 35, point |-> <<3, 4>>]

====
